---- MODULE Spec2Model ----
(***************************************************************************)
(* Scene orchestration of the physics lab: the 2D canvas (Matter.js world, *)
(* scene registry, motion trails, experiment loader), the 3D canvas        *)
(* (object list, initial-position map) and the application state that      *)
(* both report to (selection, displayed PhysicsState, graph buffer).       *)
(*                                                                         *)
(* Lengths are canvas pixels.  A value that may be null/undefined in the    *)
(* source is a sequence of length 0 or 1.                                  *)
(***************************************************************************)
EXTENDS Integers, Sequences, FiniteSets, TLC

\* ---------------------------------------------------------------- bounds
MaxBodyId == 6          \* Matter body ids handed out in one run
MaxObjectId3D == 2      \* values of the 3D objectIdCounter in one mount
MaxTicks == 1           \* engine updates in one run

\* ------------------------------------------------------------- constants
CanvasWidth == 800      \* render.canvas.width of the mounted 2D canvas
canvasHeight == 600     \* render.canvas.height
GridSize == 50          \* canvas pixels per unit of the 3D scene
TicksPerSecond == 60
TrailCapacity == 80     \* points kept per motion trail
maxPoints == 200        \* samples kept in the graph buffer

Null == <<>>
Some(v) == <<v>>
IsNull(o) == o = <<>>
Val(o) == o[1]

Vec(x, y) == [x |-> x, y |-> y]
Zero == Vec(0, 0)

\* `value || fallback` for an optional number: undefined and 0 are falsy.
OrElse(value, fallback) ==
    IF IsNull(value) \/ Val(value) = 0 THEN fallback ELSE Val(value)

Min(a, b) == IF a < b THEN a ELSE b
Max(a, b) == IF a < b THEN b ELSE a

\* ------------------------------------------------------------ identifiers
\* SceneObject.id is a string: the Matter body id in decimal (2D),
\* `obj3d_<n>` for a 3D drop, `exp_<n>` for a 3D preset object.
MatterId(n) == [space |-> "matter", n |-> n]
Obj3dId(n) == [space |-> "obj3d", n |-> n]
ExpId(n) == [space |-> "exp", n |-> n]

NaN == -1
\* parseInt(selId): the number of a decimal string, NaN for `obj3d_0`, `exp_0`.
ParseInt(id) == IF id.space = "matter" THEN id.n ELSE NaN

\* ------------------------------------------------------ object definitions
\* A definition as createBody and the 3D builders read it: shape tag,
\* options.isStatic, options.label, customData.emitterType, and whether the
\* parsed value has an options record at all.  mass is what Matter derives
\* from the shape and options.density.  emitterStrength and emitterDirection
\* are optional; strengths are in units of 0.00001, directions in degrees.
\* The shape parameters width, height and radius are optional too.
Definition(id, type, isStatic, optLabel, emitter) ==
    [id |-> id, type |-> type, hasOptions |-> TRUE, isStatic |-> isStatic,
     optLabel |-> optLabel, emitterType |-> emitter,
     emitterStrength |-> Null, emitterDirection |-> Null, mass |-> 1,
     width |-> Null, height |-> Null, radius |-> Null]

\* The catalog: two of the shipped entries, a static force emitter and a
\* dynamic body without emitter data.
PHYSICS_OBJECTS ==
    << [Definition("fan", "rectangle", TRUE, "Fan", "fan")
            EXCEPT !.emitterStrength = Some(500), !.emitterDirection = Some(-90),
                   !.width = Some(60), !.height = Some(40)],
       [Definition("pendulum_bob", "circle", FALSE, "Pendulum Bob", "")
            EXCEPT !.radius = Some(20)] >>

getObjectById(id) ==
    LET hits == { i \in 1..Len(PHYSICS_OBJECTS) : PHYSICS_OBJECTS[i].id = id }
    IN  IF hits = {} THEN Null
        ELSE Some(PHYSICS_OBJECTS[CHOOSE i \in hits : \A j \in hits : i <= j])

\* Definitions only a drag payload from outside the sidebar can carry.
BoundaryLabelled ==
    [Definition("crate", "rectangle", FALSE, "Boundary", "")
        EXCEPT !.width = Some(40), !.height = Some(40)]
UnsupportedShape == Definition("wedge", "trapezoid", FALSE, "Wedge", "")
NoOptions == [Definition("bare", "circle", FALSE, "", "") EXCEPT !.hasOptions = FALSE]

\* The text of dataTransfer.getData('application/json').
Payload(text, def) == [text |-> text, def |-> def]
DropPayloads ==
    { Payload("json", PHYSICS_OBJECTS[i]) : i \in 1..Len(PHYSICS_OBJECTS) }
    \cup { Payload("json", BoundaryLabelled), Payload("json", UnsupportedShape),
           Payload("json", NoOptions),
           Payload("garbage", NoOptions), Payload("", NoOptions) }

DropPoints == { Vec(400, 200) }
DropPoints3D == { [x |-> 0, y |-> 6, z |-> 0] }

\* ------------------------------------------------------------------ presets
\* A placement; angle, velocity and isStatic are optional.
Placement(definitionId, x, y, angle, velocity, isStatic) ==
    [definitionId |-> definitionId, x |-> x, y |-> y, angle |-> angle,
     velocity |-> velocity, isStatic |-> isStatic]
ConstraintConfig(a, b) == [objectAIndex |-> a, objectBIndex |-> b]

\* initialSettings; every field is optional.  gravity and timeScale are in
\* tenths (10 is 1.0).
Settings(g, ts, trails, vectors) ==
    [gravity |-> g, timeScale |-> ts, showMotionTrails |-> trails,
     showVelocityVectors |-> vectors]

\* The preset table is data handed to the loader.  `linked_pair` has the shape
\* of the shipped pendulum preset (a static body, a moving body, a constraint
\* between them); `gap` names a definition the catalog lacks;
\* `oob` has constraint indices beyond its placements.  Indices are 0-based,
\* as in the source.  `linked_pair` has the initialSettings of the shipped
\* pendulum preset, `gap` those of `elastic_collision`, `oob` has none.
EXPERIMENTS ==
    << [id |-> "linked_pair",
        objects |-> << Placement("fan", 500, 100, Null, Null, Some(TRUE)),
                       Placement("pendulum_bob", 350, 250, Some(1), Some(Vec(1, 0)), Null) >>,
        constraints |-> << ConstraintConfig(0, Some(1)) >>,
        initialSettings |-> Some(Settings(Some(10), Some(10), Some(TRUE), Null))],
       [id |-> "gap",
        objects |-> << Placement("ghost", 200, 200, Null, Null, Null),
                       Placement("pendulum_bob", 300, 200, Null, Null, Some(TRUE)),
                       Placement("fan", 400, 200, Null, Null, Null) >>,
        constraints |-> << ConstraintConfig(0, Some(1)) >>,
        initialSettings |-> Some(Settings(Some(0), Some(5), Null, Some(TRUE)))],
       [id |-> "oob",
        objects |-> << Placement("pendulum_bob", 250, 150, Null, Null, Null) >>,
        constraints |-> << ConstraintConfig(0, Some(4)),
                           ConstraintConfig(3, Null),
                           ConstraintConfig(0, Null) >>,
        initialSettings |-> Null] >>

getExperimentById(id) ==
    LET hits == { i \in 1..Len(EXPERIMENTS) : EXPERIMENTS[i].id = id }
    IN  IF hits = {} THEN Null
        ELSE Some(EXPERIMENTS[CHOOSE i \in hits : \A j \in hits : i <= j])

ExperimentIds == { EXPERIMENTS[i].id : i \in 1..Len(EXPERIMENTS) } \cup { "no_such_preset" }

Tools == { "POINTER", "CONSTRAINT", "PIN", "ERASER" }

\* -------------------------------------------------------------------- state
VARIABLES
    is3D,                 \* App: which canvas is mounted
    isPaused,             \* App: the runner is disabled
    gravity,              \* App: the gravity scale, in tenths
    timeScale,            \* App: the time scale, in tenths
    showMotionTrails,     \* App: visualization.showMotionTrails
    showVelocityVectors,  \* App: visualization.showVelocityVectors
    selectedObject,       \* App: id of the selected SceneObject, or null
    physicsState,         \* App: the displayed PhysicsState, or null
    graphData,            \* App: the graph-data buffer
    nextId,               \* Matter's global id counter (next body id)
    bodies,               \* 2D: engine.world bodies, id -> body
    constraints,          \* 2D: engine.world constraints
    sceneObjectsRef,      \* 2D: the registry, body id -> SceneObject
    motionTrailsRef,      \* 2D: body id -> trail buffer
    selectedObjectIdRef,  \* 2D: the canvas's snapshot of the selection id
    boundary,             \* 2D: ids of the floor and walls of the setup effect
    loaderState,          \* 2D: "Idle" or "Loading" (inside loadExperiment)
    experiment,           \* 2D: the preset being loaded, or null
    objIndex,             \* 2D: next placement of the load (0-based)
    conIndex,             \* 2D: next constraint of the load (0-based)
    createdBodies,        \* 2D: the load's list of created body ids
    objects,              \* 3D: the object list
    initialPositionsRef,  \* 3D: object id -> initial position
    objectIdCounter,      \* 3D: next object number
    tickCount,            \* engine updates so far
    lastStep              \* what the latest engine update ran (history)

appVars == << is3D, isPaused, showMotionTrails, selectedObject,
              physicsState, graphData >>
worldVars == << nextId, bodies, constraints, sceneObjectsRef, motionTrailsRef >>
loaderVars == << loaderState, experiment, objIndex, conIndex, createdBodies >>
vars3D == << objects, initialPositionsRef, objectIdCounter >>
settingsVars == << gravity, timeScale, showVelocityVectors >>
engineVars == << tickCount, lastStep >>
vars == << appVars, settingsVars, worldVars, selectedObjectIdRef, boundary, loaderVars,
          vars3D, engineVars >>

\* Nothing has been stepped yet.
NoStep == [updates |-> 0, evaluations |-> 0, overlays |-> 0, samples |-> 0,
           forces |-> <<>>]

Empty == [k \in {} |-> Null]
Without(f, k) == [j \in DOMAIN f \ {k} |-> f[j]]

Init ==
    /\ is3D = TRUE
    /\ isPaused = FALSE
    /\ gravity = 10
    /\ timeScale = 10
    /\ showMotionTrails = FALSE
    /\ showVelocityVectors = FALSE
    /\ selectedObject = Null
    /\ physicsState = Null
    /\ graphData = <<>>
    /\ nextId = 1
    /\ bodies = Empty
    /\ constraints = {}
    /\ sceneObjectsRef = Empty
    /\ motionTrailsRef = Empty
    /\ selectedObjectIdRef = Null
    /\ boundary = {}
    /\ loaderState = "Idle"
    /\ experiment = Null
    /\ objIndex = 0
    /\ conIndex = 0
    /\ createdBodies = <<>>
    /\ objects = <<>>
    /\ initialPositionsRef = Empty
    /\ objectIdCounter = 0
    /\ tickCount = 0
    /\ lastStep = NoStep

\* No handler, effect or tick starts while another handler is running.
Quiet == loaderState = "Idle"
In2D == ~is3D /\ Quiet
In3D == is3D /\ Quiet

\* ------------------------------------------------------------ engine world
\* size is the extent of the shape the body was made with.
Body(label, isStatic, position) ==
    [label |-> label, isStatic |-> isStatic, position |-> position,
     angle |-> 0, velocity |-> Zero, angularVelocity |-> 0, mass |-> 1,
     size |-> Zero]

\* The floor and the two walls of the setup effect, in creation order.
BoundaryBodies ==
    << [Body("Boundary", TRUE, Vec(CanvasWidth \div 2, canvasHeight - 15))
            EXCEPT !.size = Vec(CanvasWidth + 100, 30)],
       [Body("Boundary", TRUE, Vec(-25, canvasHeight \div 2))
            EXCEPT !.size = Vec(50, canvasHeight + 200)],
       [Body("Boundary", TRUE, Vec(CanvasWidth + 25, canvasHeight \div 2))
            EXCEPT !.size = Vec(50, canvasHeight + 200)] >>

\* The constraint inside the MouseConstraint, and a preset's constraint.
MouseConstraint == [kind |-> "mouse", index |-> 0, bodyA |-> Null, bodyB |-> Null]
SceneConstraint(i, a, b) == [kind |-> "scene", index |-> i, bodyA |-> a, bodyB |-> b]

\* The shape createBody hands to Matter.Bodies: a missing (or zero) width,
\* height or radius is replaced by a default, and so is never an error.
ShapeSize(def) ==
    IF def.type = "rectangle"
    THEN Vec(OrElse(def.width, 50), OrElse(def.height, 50))
    ELSE IF def.type = "circle"
    THEN Vec(2 * OrElse(def.radius, 25), 2 * OrElse(def.radius, 25))
    ELSE Vec(2 * OrElse(def.radius, 30), 2 * OrElse(def.radius, 30))

\* A createBody that reads a missing options record as an empty one (a
\* variant the error path is tested against).
createBodyTolerant(def) == FALSE

\* createBody throws when def.options is missing, returns null for a shape
\* tag it does not know, and a body otherwise.
createBodyThrows(def) == ~def.hasOptions
createBody(def, x, y) ==
    IF def.type \in {"rectangle", "circle", "polygon"}
    THEN Some([Body(IF def.optLabel = "" THEN def.id ELSE def.optLabel,
                    def.isStatic, Vec(x, y))
                  EXCEPT !.mass = def.mass, !.size = ShapeSize(def)])
    ELSE Null

NewSceneObject(id, def, x, y, body) ==
    [id |-> MatterId(id), definitionId |-> def.id, body |-> id,
     initialPosition |-> Vec(x, y), initialAngle |-> body.angle,
     emitterType |-> def.emitterType, emitterStrength |-> def.emitterStrength,
     emitterDirection |-> def.emitterDirection]

\* Composite.allBodies(world).filter(b => b.label !== 'Boundary')
NotBoundary(bs) == { id \in DOMAIN bs : bs[id].label # "Boundary" }

\* Matter.Vector.magnitude: a magnitude is kept as its square, so that it is
\* exact for every velocity (Root(2) is the square root of 2).
Root(sq) == [sq |-> sq]
Magnitude(v) == Root(v.x * v.x + v.y * v.y)
\* A speed left in the engine's per-tick unit (a variant the conversion is
\* tested against).
Unscaled(root, k) == root
Scaled(root, k) == Root(root.sq * k * k)

\* Math.max(0, potentialEnergy), and a variant without the clamp.
Unclamped(energy) == energy
Clamped(energy) == Max(0, energy)

\* calculatePhysicsState(body).  Energies are in thousandths; gravity is in
\* tenths, and the potential energy is exact for the whole gravity scales
\* the model sets.  The gravity read is that of gravityScaleRef.
calculatePhysicsState(body) ==
    LET speed == Magnitude(body.velocity)
        mass == body.mass
        kineticEnergy == 50000 * mass * speed.sq
        heightFromBottom == canvasHeight - body.position.y
        potentialEnergy == (mass * gravity * 981 * heightFromBottom) \div 10
    IN  [position |-> body.position,
         velocity |-> Vec(body.velocity.x * TicksPerSecond,
                          body.velocity.y * TicksPerSecond),
         angle |-> body.angle,
         angularVelocity |-> body.angularVelocity,
         mass |-> mass,
         speed |-> Scaled(speed, TicksPerSecond),
         kineticEnergy |-> kineticEnergy,
         potentialEnergy |-> Clamped(potentialEnergy),
         totalEnergy |-> kineticEnergy + Clamped(potentialEnergy),
         momentum |-> Vec(mass * body.velocity.x * TicksPerSecond,
                          mass * body.velocity.y * TicksPerSecond)]

\* App.handleObjectSelect: a null selection also empties the graph buffer.
GraphAfterSelect(sel, graph) == IF IsNull(sel) THEN <<>> ELSE graph

\* ------------------------------------------------------------ mode switch
\* The 2D/3D buttons.  The canvas that is left is unmounted and its state is
\* gone; the other one is mounted afresh.  Matter's id counter is global.
SetIs3D(b) ==
    /\ Quiet
    /\ is3D # b
    /\ is3D' = b
    /\ IF b
       THEN /\ bodies' = Empty
            /\ constraints' = {}
            /\ selectedObjectIdRef' = Null
            /\ boundary' = {}
            /\ nextId' = nextId
       ELSE /\ nextId + 2 <= MaxBodyId
            /\ bodies' = [id \in nextId..(nextId + 2) |-> BoundaryBodies[id - nextId + 1]]
            /\ constraints' = { MouseConstraint }
            /\ selectedObjectIdRef' = selectedObject
            /\ boundary' = nextId..(nextId + 2)
            /\ nextId' = nextId + 3
    /\ sceneObjectsRef' = Empty
    /\ motionTrailsRef' = Empty
    /\ objects' = <<>>
    /\ initialPositionsRef' = Empty
    /\ objectIdCounter' = 0
    /\ UNCHANGED << isPaused, showMotionTrails, selectedObject,
                    physicsState, graphData, loaderVars, settingsVars, engineVars >>

\* The effect that copies the selectedObjectId prop into the canvas's ref.
SelectedObjectIdEffect ==
    /\ In2D
    /\ selectedObjectIdRef # selectedObject
    /\ selectedObjectIdRef' = selectedObject
    /\ UNCHANGED << appVars, worldVars, boundary, loaderVars, vars3D, settingsVars, engineVars >>

\* Toolbar and keyboard.  The current tool only gates the mouse handlers and
\* any tool can be picked before any mouse event, so each mouse handler takes
\* the tool as an input.
SetIsPaused ==
    /\ Quiet
    /\ isPaused' = ~isPaused
    /\ UNCHANGED << is3D, showMotionTrails, selectedObject, physicsState,
                    graphData, worldVars, selectedObjectIdRef, boundary, loaderVars, vars3D,
                    settingsVars, engineVars >>

SetShowMotionTrails ==
    /\ Quiet
    /\ showMotionTrails' = ~showMotionTrails
    /\ UNCHANGED << is3D, isPaused, selectedObject, physicsState,
                    graphData, worldVars, selectedObjectIdRef, boundary, loaderVars, vars3D,
                    settingsVars, engineVars >>

\* The gravity slider, the time-scale buttons and a visualization switch.
GravityValues == { 0, 10 }
TimeScales == { 5, 10, 20 }

setGravity(g) ==
    /\ Quiet
    /\ gravity' = g
    /\ UNCHANGED << appVars, timeScale, showVelocityVectors, worldVars,
                    selectedObjectIdRef, boundary, loaderVars, vars3D, engineVars >>

setTimeScale(ts) ==
    /\ Quiet
    /\ timeScale' = ts
    /\ UNCHANGED << appVars, gravity, showVelocityVectors, worldVars,
                    selectedObjectIdRef, boundary, loaderVars, vars3D, engineVars >>

SetShowVelocityVectors ==
    /\ Quiet
    /\ showVelocityVectors' = ~showVelocityVectors
    /\ UNCHANGED << appVars, gravity, timeScale, worldVars,
                    selectedObjectIdRef, boundary, loaderVars, vars3D, engineVars >>

\* ------------------------------------------------------------- 2D: drop
handleDrop(payload, pt) ==
    /\ In2D
    /\ LET def == payload.def
           ok == payload.text = "json" /\ ~createBodyThrows(def)
           made == IF ok THEN createBody(def, pt.x, pt.y) ELSE Null
       IN  IF IsNull(made)
           THEN UNCHANGED << nextId, bodies, sceneObjectsRef, selectedObject,
                             physicsState >>
           ELSE /\ nextId <= MaxBodyId
                /\ nextId' = nextId + 1
                /\ bodies' = bodies @@ (nextId :> Val(made))
                /\ sceneObjectsRef' = sceneObjectsRef @@
                       (nextId :> NewSceneObject(nextId, def, pt.x, pt.y, Val(made)))
                /\ selectedObject' = Some(MatterId(nextId))
                /\ physicsState' = Some(calculatePhysicsState(Val(made)))
    /\ UNCHANGED << is3D, isPaused, showMotionTrails, graphData,
                    constraints, motionTrailsRef, selectedObjectIdRef, boundary, loaderVars,
                    vars3D, settingsVars, engineVars >>

\* ------------------------------------------------- 2D: pointer selection
\* What Matter.Query.point(...).find(b => b.label !== 'Boundary') can return
\* for some point of the canvas: a body not labelled 'Boundary', or nothing.
ClickTargets == { Null } \cup { Some(id) : id \in NotBoundary(bodies) }

\* The MouseConstraint's own mousedown listener.
mouseConstraintMouseDown(currentTool, clickedBody) ==
    /\ In2D
    /\ currentTool = "POINTER"
    /\ IF ~IsNull(clickedBody) /\ Val(clickedBody) \in DOMAIN sceneObjectsRef
       THEN /\ selectedObject' = Some(sceneObjectsRef[Val(clickedBody)].id)
            /\ physicsState' = Some(calculatePhysicsState(bodies[Val(clickedBody)]))
       ELSE UNCHANGED << selectedObject, physicsState >>
    /\ UNCHANGED << is3D, isPaused, showMotionTrails, graphData, worldVars,
                    selectedObjectIdRef, boundary, loaderVars, vars3D, settingsVars, engineVars >>

handleCanvasClick(currentTool, clickedBody) ==
    /\ In2D
    /\ currentTool = "POINTER"
    /\ IF ~IsNull(clickedBody)
       THEN IF Val(clickedBody) \in DOMAIN sceneObjectsRef
            THEN /\ selectedObject' = Some(sceneObjectsRef[Val(clickedBody)].id)
                 /\ physicsState' = Some(calculatePhysicsState(bodies[Val(clickedBody)]))
                 /\ UNCHANGED graphData
            ELSE UNCHANGED << selectedObject, physicsState, graphData >>
       ELSE /\ selectedObject' = Null
            /\ physicsState' = Null
            /\ graphData' = <<>>
    /\ UNCHANGED << is3D, isPaused, showMotionTrails, worldVars,
                    selectedObjectIdRef, boundary, loaderVars, vars3D, settingsVars, engineVars >>

\* ------------------------------------------------- 2D: eraser and pin
\* A filter that looks at bodyA only (a variant the constraint cleanup is
\* tested against).
ReferencesAsBodyA(c, id) == c.bodyA = Some(id)
References(c, id) == c.bodyA = Some(id) \/ c.bodyB = Some(id)

\* An eraser that takes the body out of the world and leaves its registry
\* entry (a variant the release of removed objects is tested against).
EraseLeavingEntry(id) ==
    /\ constraints' = { c \in constraints : ~References(c, id) }
    /\ bodies' = Without(bodies, id)
    /\ sceneObjectsRef' = sceneObjectsRef
    /\ IF selectedObject = Some(MatterId(id))
       THEN selectedObject' = Null /\ graphData' = <<>>
       ELSE UNCHANGED << selectedObject, graphData >>

\* The eraser branch of handleToolAction.
Erase(id) ==
    /\ constraints' = { c \in constraints : ~References(c, id) }
    /\ bodies' = Without(bodies, id)
    /\ sceneObjectsRef' = Without(sceneObjectsRef, id)
    /\ IF selectedObject = Some(MatterId(id))
       THEN selectedObject' = Null /\ graphData' = <<>>
       ELSE UNCHANGED << selectedObject, graphData >>

\* A switch that takes the body out of the world (a variant the keeping of
\* the bodies is tested against).
ToggleStaticDroppingBody(id) == bodies' = Without(bodies, id)

\* Matter.Body.setStatic(body, !body.isStatic)
ToggleStatic(id) == bodies' = [bodies EXCEPT ![id].isStatic = ~bodies[id].isStatic]

handleToolAction(currentTool, clickedBody) ==
    /\ In2D
    /\ currentTool # "POINTER"
    /\ IF currentTool = "ERASER" /\ ~IsNull(clickedBody)
       THEN Erase(Val(clickedBody))
       ELSE IF currentTool = "PIN" /\ ~IsNull(clickedBody)
       THEN /\ ToggleStatic(Val(clickedBody))
            /\ UNCHANGED << constraints, sceneObjectsRef, selectedObject, graphData >>
       ELSE UNCHANGED << bodies, constraints, sceneObjectsRef, selectedObject, graphData >>
    /\ UNCHANGED << is3D, isPaused, showMotionTrails, physicsState, nextId,
                    motionTrailsRef, selectedObjectIdRef, boundary, loaderVars, vars3D, settingsVars, engineVars >>

\* ----------------------------------------------------- 2D: ref methods
\* allBodies(world).find(b => b.id === parseInt(selId)), for a non-null selId
FindSelected(ref) ==
    IF ~IsNull(ref) /\ ParseInt(Val(ref)) \in DOMAIN bodies
    THEN Some(ParseInt(Val(ref))) ELSE Null

\* The world and registry part of clear() and of the start of loadExperiment().
\* A removal loop without the label test (a variant the protection of the
\* floor and walls is tested against).
ClearedEveryBody == Empty
ClearedBodies == [id \in { j \in DOMAIN bodies : bodies[j].label = "Boundary" } |-> bodies[id]]
ClearedConstraints == {}

\* A reset that puts the body back and leaves it moving (a variant the
\* zeroing of the velocities is tested against).
ResetBodyStillMoving(b, obj) ==
    [b EXCEPT !.position = obj.initialPosition, !.angle = obj.initialAngle]

\* reset(): every registered object back to its initial placement.
ResetBody(b, obj) ==
    [b EXCEPT !.position = obj.initialPosition, !.angle = obj.initialAngle,
              !.velocity = Zero, !.angularVelocity = 0]
\* A reset that does not look at the ids it is given (a variant the
\* targeting of resetSelectedPosition is tested against).
ResetEveryBody(ids) ==
    [id \in DOMAIN bodies |->
        IF id \in DOMAIN sceneObjectsRef
        THEN ResetBody(bodies[id], sceneObjectsRef[id]) ELSE bodies[id]]

ResetBodies(ids) ==
    [id \in DOMAIN bodies |->
        IF id \in ids /\ id \in DOMAIN sceneObjectsRef
        THEN ResetBody(bodies[id], sceneObjectsRef[id]) ELSE bodies[id]]

\* ------------------------------------------------------- 2D: force emitters
FanRadius == 300
WellOuterRadius == 250
WellInnerRadius == 30
WellFactor == 50000
DefaultStrength == 100    \* 0.001

\* Math.sqrt, exact on perfect squares and rounded down elsewhere.
Sqrt(n) == CHOOSE r \in 0..n : r * r <= n /\ n < (r + 1) * (r + 1)

\* |p - q| squared; the distance tests compare squares, which is exact.
DistanceSq(p, q) == (p.x - q.x) * (p.x - q.x) + (p.y - q.y) * (p.y - q.y)

\* A quotient that is kept as written, numerator over denominator.
Ratio(num, den) == [num |-> num, den |-> den]

\* (Math.cos, Math.sin) of a direction given in degrees, for the quarter
\* turns, where the values are 0, 1 and -1 to within rounding.
UnitVector(degrees) ==
    CASE degrees = 0 -> [x |-> 1, y |-> 0, den |-> 1]
      [] degrees = 90 -> [x |-> 0, y |-> 1, den |-> 1]
      [] degrees = -90 -> [x |-> 0, y |-> -1, den |-> 1]
      [] degrees = 180 -> [x |-> -1, y |-> 0, den |-> 1]

\* Matter.Vector.normalise(sub(to, from)): each component over the length.
Normalise(from, to) ==
    [x |-> to.x - from.x, y |-> to.y - from.y, den |-> Sqrt(DistanceSq(from, to))]

\* One Matter.Body.applyForce(body, body.position, direction * forceMag).
Application(emitter, body, forceMag, direction) ==
    [emitter |-> emitter, body |-> body, forceMag |-> forceMag, direction |-> direction]

\* A test of the inner loop that leaves out body.isStatic (a variant the
\* exemption of static bodies is tested against).
SkippedIgnoringStatic(bs, id, emitterBody) ==
    id = emitterBody \/ bs[id].label = "Boundary"
\* if (body === emitterBody || body.isStatic || body.label === 'Boundary') return
Skipped(bs, id, emitterBody) ==
    id = emitterBody \/ bs[id].isStatic \/ bs[id].label = "Boundary"

\* The fan law with the falloff left out (a variant the law is tested against).
FanForceMagFlat(strength, distance) == Ratio(strength * FanRadius, FanRadius)
\* strength * (1 - distance / 300)
FanForceMag(strength, distance) == Ratio(strength * (FanRadius - distance), FanRadius)

\* The well law falling off with the distance, not its square (a variant).
WellForceMagLinear(strength, mass, distanceSq) ==
    Ratio(strength * mass * WellFactor, Sqrt(distanceSq))
\* strength * body.mass * 50000 / (distance * distance)
WellForceMag(strength, mass, distanceSq) ==
    Ratio(strength * mass * WellFactor, distanceSq)

\* The body of the inner loop: the forces emitter `obj` applies to body `id`.
EmitterForces(obj, bs, id) ==
    LET strength == OrElse(obj.emitterStrength, DefaultStrength)
        direction == OrElse(obj.emitterDirection, 0)
        distanceSq == DistanceSq(bs[id].position, bs[obj.body].position)
    IN  IF Skipped(bs, id, obj.body) THEN <<>>
        ELSE (IF obj.emitterType = "fan" /\ distanceSq < FanRadius * FanRadius
              THEN << Application(obj.body, id,
                                  FanForceMag(strength, Sqrt(distanceSq)),
                                  UnitVector(direction)) >>
              ELSE <<>>)
             \o
             (IF /\ obj.emitterType = "gravity_well"
                 /\ distanceSq < WellOuterRadius * WellOuterRadius
                 /\ distanceSq > WellInnerRadius * WellInnerRadius
              THEN << Application(obj.body, id,
                                  WellForceMag(strength, bs[id].mass, distanceSq),
                                  Normalise(bs[id].position, bs[obj.body].position)) >>
              ELSE <<>>)

\* The ids of a set in ascending order: the order of Composite.allBodies and
\* of the registry Map, both of which keep the order of creation.
RECURSIVE Ascending(_)
Ascending(S) ==
    IF S = {} THEN <<>>
    ELSE LET least == CHOOSE x \in S : \A y \in S : x <= y
         IN  << least >> \o Ascending(S \ { least })

RECURSIVE ForEachBody(_, _, _)
ForEachBody(obj, bs, ids) ==
    IF ids = <<>> THEN <<>>
    ELSE EmitterForces(obj, bs, Head(ids)) \o ForEachBody(obj, bs, Tail(ids))

RECURSIVE ForEachEmitter(_, _, _)
ForEachEmitter(registry, bs, ids) ==
    IF ids = <<>> THEN <<>>
    ELSE ForEachBody(registry[Head(ids)], bs, Ascending(DOMAIN bs))
         \o ForEachEmitter(registry, bs, Tail(ids))

\* An evaluator that spares the selected body (a variant the independence
\* from the selection is tested against).
applyForceEmittersSparingSelected(registry, bs) ==
    LET spared == IF IsNull(selectedObjectIdRef) THEN {}
                  ELSE { ParseInt(Val(selectedObjectIdRef)) }
        rest == [id \in DOMAIN bs \ spared |-> bs[id]]
    IN  ForEachEmitter(registry, rest,
            Ascending({ id \in DOMAIN registry :
                          registry[id].emitterType # "" /\ registry[id].body \in DOMAIN rest }))

\* applyForceEmitters(): the applyForce calls of one run, in order.
applyForceEmitters(registry, bs) ==
    ForEachEmitter(registry, bs,
        Ascending({ id \in DOMAIN registry :
                      registry[id].emitterType # "" /\ registry[id].body \in DOMAIN bs }))

\* ------------------------------------------------------------- 2D: a tick
\* The engine's integration, which the scene code leaves to Matter.
\* Velocities are whole pixels per tick: gravity and every applied force
\* change the velocity of a body that is not static by one pixel per tick
\* along each axis they act on; the body then moves by its velocity and
\* stays between the walls and under the top edge.  Contacts are not
\* resolved: a falling body passes the floor and leaves the canvas at the
\* bottom; what contacts may do to a moving body is the input `spin`, the
\* angular velocity it is left with.
Sign(n) == IF n > 0 THEN 1 ELSE IF n < 0 THEN -1 ELSE 0
Spins == { 0, 1 }

RECURSIVE Pushes(_, _)
Pushes(forces, id) ==
    IF forces = <<>> THEN Zero
    ELSE LET rest == Pushes(Tail(forces), id)
             f == Head(forces)
         IN  IF f.body # id THEN rest
             ELSE Vec(rest.x + Sign(f.forceMag.num) * Sign(f.direction.x),
                      rest.y + Sign(f.forceMag.num) * Sign(f.direction.y))

Clip(v, hi) == Max(0, Min(hi, v))
EngineUpdate(bs, forces, g, spin) ==
    [id \in DOMAIN bs |->
        IF bs[id].isStatic THEN bs[id]
        ELSE LET push == Pushes(forces, id)
                 velocity == Vec(bs[id].velocity.x + push.x,
                                 bs[id].velocity.y + push.y + Sign(g))
                 angularVelocity == IF velocity = Zero THEN bs[id].angularVelocity
                                    ELSE spin
             IN  [bs[id] EXCEPT
                     !.velocity = velocity,
                     !.angularVelocity = angularVelocity,
                     !.angle = @ + angularVelocity,
                     !.position = Vec(Clip(@.x + velocity.x, CanvasWidth),
                                      Max(0, @.y + velocity.y))]]

\* A push that, at capacity, drops the new point and keeps the oldest (a
\* variant the eviction is tested against).
PushTrailKeepingOldest(trail, pos) ==
    IF Len(trail) >= TrailCapacity THEN trail ELSE Append(trail, pos)

\* trails.push(position); if (trails.length > 80) trails.shift()
PushTrail(trail, pos) ==
    LET pushed == Append(trail, pos)
    IN  IF Len(pushed) > TrailCapacity THEN Tail(pushed) ELSE pushed

\* An overlay that records a point for every body that is not labelled
\* 'Boundary', static and unregistered ones too (a variant the trail
\* conditions are tested against).
drawOverlayOfEveryBody(trails, bs, show) ==
    LET drawn == { id \in NotBoundary(bs) : show }
    IN  [id \in DOMAIN trails \cup drawn |->
            IF id \in drawn
            THEN PushTrail(IF id \in DOMAIN trails THEN trails[id] ELSE <<>>,
                           bs[id].position)
            ELSE trails[id]]

\* drawOverlay(): the only state it writes is the trail buffers.
drawOverlay(trails, bs, show) ==
    LET drawn == { id \in NotBoundary(bs) :
                     id \in DOMAIN sceneObjectsRef /\ show /\ ~bs[id].isStatic }
    IN  [id \in DOMAIN trails \cup drawn |->
            IF id \in drawn
            THEN PushTrail(IF id \in DOMAIN trails THEN trails[id] ELSE <<>>,
                           bs[id].position)
            ELSE trails[id]]

GraphDataPoint(state) ==
    [positionX |-> state.position.x, positionY |-> state.position.y,
     velocityX |-> state.velocity.x, velocityY |-> state.velocity.y,
     speed |-> state.speed, kineticEnergy |-> state.kineticEnergy,
     potentialEnergy |-> state.potentialEnergy, totalEnergy |-> state.totalEnergy]

\* A buffer that, once full, keeps what it has and drops the new sample (a
\* variant the eviction is tested against).
handleGraphDataUpdateKeepingOldest(prev, data) ==
    IF Len(prev) >= maxPoints THEN prev ELSE Append(prev, data)

\* App.handleGraphDataUpdate
handleGraphDataUpdate(prev, data) ==
    LET newData == Append(prev, data)
    IN  IF Len(newData) > maxPoints
        THEN SubSeq(newData, Len(newData) - maxPoints + 1, Len(newData))
        ELSE newData

\* Matter.Engine.update with the beforeUpdate and afterUpdate listeners;
\* `draws` is 1 for the runner and 2 for stepFrame, which draws once more.
EngineStep(draws, spin) ==
    LET forces == applyForceEmitters(sceneObjectsRef, bodies)
        moved == EngineUpdate(bodies, forces, gravity, spin)
        once == drawOverlay(motionTrailsRef, moved, showMotionTrails)
        found == IF ~IsNull(selectedObjectIdRef)
                    /\ ParseInt(Val(selectedObjectIdRef)) \in DOMAIN moved
                 THEN Some(moved[ParseInt(Val(selectedObjectIdRef))]) ELSE Null
    IN  /\ bodies' = moved
        /\ motionTrailsRef' = IF draws = 2
                              THEN drawOverlay(once, moved, showMotionTrails)
                              ELSE once
        /\ IF IsNull(found)
           THEN UNCHANGED << physicsState, graphData >>
           ELSE /\ physicsState' = Some(calculatePhysicsState(Val(found)))
                /\ graphData' = handleGraphDataUpdate(graphData,
                                    GraphDataPoint(calculatePhysicsState(Val(found))))
        /\ tickCount' = tickCount + 1
        /\ lastStep' = [updates |-> 1, evaluations |-> 1, overlays |-> draws,
                        samples |-> IF IsNull(found) THEN 0 ELSE 1,
                        forces |-> forces]
        /\ UNCHANGED << is3D, isPaused, showMotionTrails, selectedObject, settingsVars,
                        nextId, constraints, sceneObjectsRef, selectedObjectIdRef, boundary,
                        loaderVars, vars3D >>

\* The runner's frame.
Tick(spin) ==
    /\ In2D
    /\ ~isPaused
    /\ tickCount < MaxTicks
    /\ EngineStep(1, spin)

\* Toolbar: step one frame (canvasRef is null in 3D).
handleStepFrame(spin) ==
    /\ In2D
    /\ tickCount < MaxTicks
    /\ EngineStep(2, spin)

\* --------------------------------------------------- 2D: toolbar and panel
clear2D ==
    /\ bodies' = ClearedBodies
    /\ constraints' = ClearedConstraints
    /\ sceneObjectsRef' = Empty
    /\ motionTrailsRef' = Empty

handleClear2D ==
    /\ In2D
    /\ clear2D
    /\ selectedObject' = Null
    /\ physicsState' = Null
    /\ graphData' = <<>>
    /\ UNCHANGED << is3D, isPaused, showMotionTrails, nextId,
                    selectedObjectIdRef, boundary, loaderVars, vars3D, settingsVars, engineVars >>

handleReset2D ==
    /\ In2D
    /\ bodies' = ResetBodies(DOMAIN sceneObjectsRef)
    /\ motionTrailsRef' = Empty
    /\ UNCHANGED << appVars, nextId, constraints, sceneObjectsRef, selectedObjectIdRef, boundary,
                    loaderVars, vars3D, settingsVars, engineVars >>

\* deleteSelected() of the ref: nothing happens unless the snapshot names a body.
deleteSelected(found) ==
    IF IsNull(found)
    THEN UNCHANGED << bodies, constraints, sceneObjectsRef, motionTrailsRef, graphData >>
    ELSE /\ constraints' = { c \in constraints : ~References(c, Val(found)) }
         /\ bodies' = Without(bodies, Val(found))
         /\ sceneObjectsRef' = Without(sceneObjectsRef, Val(found))
         /\ motionTrailsRef' = Without(motionTrailsRef, Val(found))
         /\ graphData' = <<>>

\* Delete key and the panel's delete button, both offered for a selection.
handleDeleteObject2D ==
    /\ In2D
    /\ ~IsNull(selectedObject)
    /\ deleteSelected(FindSelected(selectedObjectIdRef))
    /\ selectedObject' = Null
    /\ physicsState' = Null
    /\ UNCHANGED << is3D, isPaused, showMotionTrails, nextId,
                    selectedObjectIdRef, boundary, loaderVars, vars3D, settingsVars, engineVars >>

handleToggleStatic ==
    /\ In2D
    /\ ~IsNull(selectedObject)
    /\ LET found == FindSelected(selectedObjectIdRef)
       IN  IF IsNull(found) THEN UNCHANGED bodies ELSE ToggleStatic(Val(found))
    /\ UNCHANGED << appVars, nextId, constraints, sceneObjectsRef, motionTrailsRef,
                    selectedObjectIdRef, boundary, loaderVars, vars3D, settingsVars, engineVars >>

handleResetObject2D ==
    /\ In2D
    /\ ~IsNull(selectedObject)
    /\ bodies' = IF IsNull(selectedObjectIdRef) THEN bodies
                 ELSE ResetBodies({ ParseInt(Val(selectedObjectIdRef)) })
    /\ UNCHANGED << appVars, nextId, constraints, sceneObjectsRef, motionTrailsRef,
                    selectedObjectIdRef, boundary, loaderVars, vars3D, settingsVars, engineVars >>

\* ------------------------------------------------- 2D: experiment loader
\* loadExperiment runs to completion inside handleSelectExperiment; it is
\* written here step by step (start, one step per placement, one per
\* constraint, return) so that its intermediate states can be stated.
Creatable(preset) ==
    { i \in 1..Len(preset.objects) :
        /\ ~IsNull(getObjectById(preset.objects[i].definitionId))
        /\ ~IsNull(createBody(Val(getObjectById(preset.objects[i].definitionId)), 0, 0)) }

\* What the start of a load leaves of the old world.
LoadClearedBodies == ClearedBodies
LoadClearedConstraints == {}
LoadClearedTrails == Empty
LoadClearedSelection == Null
LoadClearedGraph == <<>>

handleSelectExperiment2D(experimentId) ==
    /\ In2D
    /\ LET found == getExperimentById(experimentId)
       IN  IF IsNull(found)
           THEN /\ selectedObject' = Null
                /\ physicsState' = Null
                /\ graphData' = <<>>
                /\ UNCHANGED << worldVars, loaderVars >>
           ELSE /\ nextId + Cardinality(Creatable(Val(found))) <= MaxBodyId + 1
                /\ bodies' = LoadClearedBodies
                /\ constraints' = LoadClearedConstraints
                /\ sceneObjectsRef' = Empty
                /\ motionTrailsRef' = LoadClearedTrails
                /\ selectedObject' = LoadClearedSelection
                /\ graphData' = GraphAfterSelect(LoadClearedSelection, LoadClearedGraph)
                /\ loaderState' = "Loading"
                /\ experiment' = found
                /\ objIndex' = 0
                /\ conIndex' = 0
                /\ createdBodies' = <<>>
                /\ UNCHANGED << nextId, physicsState >>
    /\ UNCHANGED << is3D, isPaused, showMotionTrails, selectedObjectIdRef, boundary,
                    vars3D, settingsVars, engineVars >>

\* The body of one placement, after the angle, velocity and static overrides.
PlacedBody(body, objConfig) ==
    [body EXCEPT
        !.angle = IF ~IsNull(objConfig.angle) /\ Val(objConfig.angle) # 0
                  THEN Val(objConfig.angle) ELSE @,
        !.velocity = IF ~IsNull(objConfig.velocity) THEN Val(objConfig.velocity) ELSE @,
        !.isStatic = IF ~IsNull(objConfig.isStatic) THEN Val(objConfig.isStatic) ELSE @]

\* createdBodies.push(body)
PushCreated(list, index, id) == Append(list, id)

loadPlacement ==
    /\ loaderState = "Loading"
    /\ objIndex < Len(Val(experiment).objects)
    /\ LET objConfig == Val(experiment).objects[objIndex + 1]
           definition == getObjectById(objConfig.definitionId)
           made == IF IsNull(definition) THEN Null
                   ELSE createBody(Val(definition), objConfig.x, objConfig.y)
       IN  IF IsNull(made)
           THEN UNCHANGED << nextId, bodies, sceneObjectsRef, createdBodies >>
           ELSE LET body == PlacedBody(Val(made), objConfig)
                IN  /\ nextId' = nextId + 1
                    /\ bodies' = bodies @@ (nextId :> body)
                    /\ createdBodies' = PushCreated(createdBodies, objIndex, nextId)
                    /\ sceneObjectsRef' = sceneObjectsRef @@
                           (nextId :> NewSceneObject(nextId, Val(definition),
                                                     objConfig.x, objConfig.y, body))
    /\ objIndex' = objIndex + 1
    /\ UNCHANGED << appVars, constraints, motionTrailsRef, selectedObjectIdRef, boundary,
                    loaderState, experiment, conIndex, vars3D, settingsVars, engineVars >>

\* createdBodies[index]: undefined beyond the end of the list
CreatedAt(list, index) ==
    IF index >= 0 /\ index < Len(list) THEN Some(list[index + 1]) ELSE Null

\* The constraint one constraintConfig adds to the world, if any.
LoadedConstraint(list, index, cfg) ==
    LET bodyA == CreatedAt(list, cfg.objectAIndex)
        bodyB == IF ~IsNull(cfg.objectBIndex)
                 THEN CreatedAt(list, Val(cfg.objectBIndex)) ELSE Null
    IN  IF IsNull(bodyA) THEN Null ELSE Some(SceneConstraint(index, bodyA, bodyB))

loadConstraint ==
    /\ loaderState = "Loading"
    /\ objIndex = Len(Val(experiment).objects)
    /\ conIndex < Len(Val(experiment).constraints)
    /\ LET made == LoadedConstraint(createdBodies, conIndex,
                                    Val(experiment).constraints[conIndex + 1])
       IN  constraints' = IF IsNull(made) THEN constraints
                          ELSE constraints \cup { Val(made) }
    /\ conIndex' = conIndex + 1
    /\ UNCHANGED << appVars, nextId, bodies, sceneObjectsRef, motionTrailsRef,
                    selectedObjectIdRef, boundary, loaderState, experiment, objIndex,
                    createdBodies, vars3D, settingsVars, engineVars >>

\* loadExperiment returns and handleSelectExperiment finishes.
loadReturn ==
    /\ loaderState = "Loading"
    /\ objIndex = Len(Val(experiment).objects)
    /\ conIndex = Len(Val(experiment).constraints)
    /\ loaderState' = "Idle"
    /\ experiment' = Null
    /\ objIndex' = 0
    /\ conIndex' = 0
    /\ createdBodies' = <<>>
    /\ selectedObject' = Null
    /\ physicsState' = Null
    /\ graphData' = <<>>
    /\ UNCHANGED << is3D, isPaused, showMotionTrails, worldVars,
                    selectedObjectIdRef, boundary, vars3D, settingsVars, engineVars >>

\* ------------------------------------------------------------ 3D canvas
Vec3(x, y, z) == [x |-> x, y |-> y, z |-> z]

\* Object3DData, as far as the scene code reads it back.
Object3D(id, position, definition) ==
    [id |-> id, position |-> position,
     shape |-> IF definition.type = "circle" THEN "sphere" ELSE "box",
     definitionId |-> definition.id, isStatic |-> definition.isStatic]

ObjectIds == { objects[i].id : i \in 1..Len(objects) }
Filter3D(seq, id) == SelectSeq(seq, LAMBDA o : o.id # id)

\* handleDrop of the 3D canvas.  The object literal takes its id, and so
\* advances the counter, before it reads definition.options.
handleDrop3D(payload, position) ==
    /\ In3D
    /\ IF payload.text = ""
       THEN UNCHANGED << objects, initialPositionsRef, objectIdCounter, selectedObject >>
       ELSE IF payload.text # "json"
       THEN UNCHANGED << objects, initialPositionsRef, objectIdCounter, selectedObject >>
       ELSE /\ objectIdCounter < MaxObjectId3D
            /\ objectIdCounter' = objectIdCounter + 1
            /\ IF ~payload.def.hasOptions
               THEN UNCHANGED << objects, initialPositionsRef, selectedObject >>
               ELSE LET id == Obj3dId(objectIdCounter)
                    IN  /\ objects' = Append(objects, Object3D(id, position, payload.def))
                        /\ initialPositionsRef' = initialPositionsRef @@ (id :> position)
                        /\ selectedObject' = Some(id)
    /\ UNCHANGED << is3D, isPaused, showMotionTrails, physicsState,
                    graphData, worldVars, selectedObjectIdRef, boundary, loaderVars,
                    settingsVars, engineVars >>

\* A click on a rendered object.
handleSelectObject(currentTool, id) ==
    /\ In3D
    /\ currentTool = "POINTER"
    /\ id \in ObjectIds
    /\ selectedObject' = Some(id)
    /\ UNCHANGED << is3D, isPaused, showMotionTrails, physicsState,
                    graphData, worldVars, selectedObjectIdRef, boundary, loaderVars,
                    vars3D, settingsVars, engineVars >>

\* A click that misses every object.
handleDeselectObject ==
    /\ In3D
    /\ selectedObject' = Null
    /\ physicsState' = Null
    /\ graphData' = <<>>
    /\ UNCHANGED << is3D, isPaused, showMotionTrails, worldVars,
                    selectedObjectIdRef, boundary, loaderVars, vars3D, settingsVars, engineVars >>

\* handlePhysicsUpdate3D: the PhysicsState of the 3D canvas, in the units of
\* calculatePhysicsState (energies in thousandths, gravity in tenths).
PhysicsState3D(pos, vel, mass) ==
    LET speed == Root(vel.x * vel.x + vel.y * vel.y + vel.z * vel.z)
        kineticEnergy == 500 * mass * speed.sq
        potentialEnergy == mass * gravity * 981 * Max(0, pos.y)
    IN  [position |-> Vec(pos.x, pos.y),
         velocity |-> Vec(vel.x, vel.y),
         angle |-> 0,
         angularVelocity |-> 0,
         mass |-> mass,
         speed |-> speed,
         kineticEnergy |-> kineticEnergy,
         potentialEnergy |-> potentialEnergy,
         totalEnergy |-> kineticEnergy + potentialEnergy,
         momentum |-> Vec(mass * vel.x, mass * vel.y)]

\* useFrame of the selected object, and handlePhysicsUpdate3D behind it.
handlePhysicsUpdate3D(id, pos, vel, mass) ==
    /\ In3D
    /\ id \in ObjectIds
    /\ selectedObject = Some(id)
    /\ tickCount < MaxTicks
    /\ tickCount' = tickCount + 1
    /\ physicsState' = Some(PhysicsState3D(pos, vel, mass))
    /\ graphData' = handleGraphDataUpdate(graphData,
                         GraphDataPoint(PhysicsState3D(pos, vel, mass)))
    /\ UNCHANGED << is3D, isPaused, showMotionTrails, selectedObject, settingsVars,
                    worldVars, selectedObjectIdRef, boundary, loaderVars, vars3D,
                    lastStep >>

\* A clear that also starts the id counter again (a variant the uniqueness
\* of ids across clears is tested against).
handleClear3DRestartingIds ==
    /\ In3D
    /\ objects' = <<>>
    /\ initialPositionsRef' = Empty
    /\ objectIdCounter' = 0
    /\ selectedObject' = Null
    /\ physicsState' = Null
    /\ graphData' = <<>>
    /\ UNCHANGED << is3D, isPaused, showMotionTrails, worldVars,
                    selectedObjectIdRef, boundary, loaderVars,
                    settingsVars, engineVars >>

handleClear3D ==
    /\ In3D
    /\ objects' = <<>>
    /\ initialPositionsRef' = Empty
    /\ selectedObject' = Null
    /\ physicsState' = Null
    /\ graphData' = <<>>
    /\ UNCHANGED << is3D, isPaused, showMotionTrails, worldVars,
                    selectedObjectIdRef, boundary, loaderVars, objectIdCounter,
                    settingsVars, engineVars >>

ResetObject3D(o) ==
    IF o.id \in DOMAIN initialPositionsRef
    THEN [o EXCEPT !.position = initialPositionsRef[o.id]] ELSE o

handleReset3D ==
    /\ In3D
    /\ objects' = [i \in 1..Len(objects) |-> ResetObject3D(objects[i])]
    /\ UNCHANGED << appVars, worldVars, selectedObjectIdRef, boundary, loaderVars,
                    initialPositionsRef, objectIdCounter, settingsVars, engineVars >>

handleDeleteObject3D ==
    /\ In3D
    /\ ~IsNull(selectedObject)
    /\ objects' = Filter3D(objects, Val(selectedObject))
    /\ initialPositionsRef' = Without(initialPositionsRef, Val(selectedObject))
    /\ selectedObject' = Null
    /\ physicsState' = Null
    /\ graphData' = <<>>
    /\ UNCHANGED << is3D, isPaused, showMotionTrails, worldVars,
                    selectedObjectIdRef, boundary, loaderVars, objectIdCounter,
                    settingsVars, engineVars >>

handleResetObject3D ==
    /\ In3D
    /\ ~IsNull(selectedObject)
    /\ objects' = [i \in 1..Len(objects) |->
                      IF objects[i].id = Val(selectedObject)
                      THEN ResetObject3D(objects[i]) ELSE objects[i]]
    /\ UNCHANGED << appVars, worldVars, selectedObjectIdRef, boundary, loaderVars,
                    initialPositionsRef, objectIdCounter, settingsVars, engineVars >>

\* The position the 3D loader gives placement `index` of `n`; z in quarters.
Position3D(objConfig, index, n) ==
    Vec3((objConfig.x - 400) \div GridSize, (500 - objConfig.y) \div GridSize + 2,
         3 * (2 * index - n))

\* The 3D object of one placement: built from the definition alone.
Placed3D(id, objConfig, index, n, definition) ==
    Object3D(id, Position3D(objConfig, index, n), definition)

\* newObjects after the placements from `index` on, the counter at `counter`.
RECURSIVE NewObjects3D(_, _, _)
NewObjects3D(preset, index, counter) ==
    IF index >= Len(preset.objects) THEN <<>>
    ELSE LET objConfig == preset.objects[index + 1]
             definition == getObjectById(objConfig.definitionId)
         IN  IF IsNull(definition)
             THEN NewObjects3D(preset, index + 1, counter)
             ELSE << Placed3D(ExpId(counter), objConfig, index, Len(preset.objects),
                              Val(definition)) >>
                  \o NewObjects3D(preset, index + 1, counter + 1)

handleSelectExperiment3D(experimentId) ==
    /\ In3D
    /\ LET found == getExperimentById(experimentId)
       IN  IF IsNull(found)
           THEN UNCHANGED vars3D
           ELSE LET newObjects == NewObjects3D(Val(found), 0, objectIdCounter)
                IN  /\ objectIdCounter + Len(newObjects) <= MaxObjectId3D
                    /\ objects' = newObjects
                    /\ initialPositionsRef' =
                           [id \in { newObjects[i].id : i \in 1..Len(newObjects) } |->
                               (CHOOSE o \in { newObjects[i] : i \in 1..Len(newObjects) } :
                                    o.id = id).position]
                    /\ objectIdCounter' = objectIdCounter + Len(newObjects)
    /\ selectedObject' = Null
    /\ physicsState' = Null
    /\ graphData' = <<>>
    /\ UNCHANGED << is3D, isPaused, showMotionTrails, worldVars,
                    selectedObjectIdRef, boundary, loaderVars, settingsVars, engineVars >>

\* ------------------------------------------------------- specifications
\* Two specifications over the same variables and the same Init.
\*
\* Spec: the scene operations of both canvases (mode switch, drop, pointer,
\* eraser, pin, toolbar and panel buttons, preset load), each one a handler
\* that runs to completion between two animation frames.
\*
\* SpecRun: the running 2D lab (frames of the runner, step-frame, the pause
\* and trail switches) together with the operations that build a scene and
\* replace it: mode switch, drop, selection, preset load on either canvas.
Next ==
    \/ \E b \in BOOLEAN : SetIs3D(b)
    \/ SelectedObjectIdEffect
    \/ \E payload \in DropPayloads, pt \in DropPoints : handleDrop(payload, pt)
    \/ \E tool \in Tools, target \in ClickTargets : mouseConstraintMouseDown(tool, target)
    \/ \E tool \in Tools, target \in ClickTargets : handleCanvasClick(tool, target)
    \/ \E tool \in Tools, target \in ClickTargets : handleToolAction(tool, target)
    \/ handleClear2D
    \/ handleReset2D
    \/ handleDeleteObject2D
    \/ handleToggleStatic
    \/ handleResetObject2D
    \/ \E id \in ExperimentIds : handleSelectExperiment2D(id)
    \/ loadPlacement
    \/ loadConstraint
    \/ loadReturn
    \/ \E payload \in DropPayloads, pos \in DropPoints3D : handleDrop3D(payload, pos)
    \/ \E tool \in Tools, id \in ObjectIds : handleSelectObject(tool, id)
    \/ handleDeselectObject
    \/ handleClear3D
    \/ handleReset3D
    \/ handleDeleteObject3D
    \/ handleResetObject3D
    \/ \E id \in ExperimentIds : handleSelectExperiment3D(id)

Spec == Init /\ [][Next]_vars

NextRun ==
    \/ \E b \in BOOLEAN : SetIs3D(b)
    \/ SelectedObjectIdEffect
    \/ SetIsPaused
    \/ SetShowMotionTrails
    \/ \E payload \in DropPayloads, pt \in DropPoints : handleDrop(payload, pt)
    \/ \E tool \in Tools, target \in ClickTargets : mouseConstraintMouseDown(tool, target)
    \/ \E spin \in Spins : Tick(spin)
    \/ \E spin \in Spins : handleStepFrame(spin)
    \/ \E id \in ExperimentIds : handleSelectExperiment2D(id)
    \/ loadPlacement
    \/ loadConstraint
    \/ loadReturn
    \/ \E id \in ExperimentIds : handleSelectExperiment3D(id)

SpecRun == Init /\ [][NextRun]_vars

\* SpecPin: frames of the 2D lab next to the operations that make a body
\* static or dynamic and that put the scene back: drop, preset load, pin
\* tool, the panel's static switch, reset.
LabPayloads == { p \in DropPayloads : p.text = "json" /\ p.def.hasOptions }
LabExperiments == { "linked_pair" }

NextPin ==
    \/ SetIs3D(FALSE)
    \/ SelectedObjectIdEffect
    \/ \E payload \in LabPayloads, pt \in DropPoints : handleDrop(payload, pt)
    \/ \E target \in ClickTargets : handleToolAction("PIN", target)
    \/ handleToggleStatic
    \/ \E spin \in Spins : Tick(spin)
    \/ \E spin \in Spins : handleStepFrame(spin)
    \/ handleReset2D
    \/ handleResetObject2D
    \/ \E id \in LabExperiments : handleSelectExperiment2D(id)
    \/ loadPlacement
    \/ loadConstraint
    \/ loadReturn

SpecPin == Init /\ [][NextPin]_vars

\* SpecForce: the force evaluator on given scenes.  The 2D canvas is mounted
\* and holds one emitter (body 4) and two other registered bodies (5, 6);
\* the emitter's type, strength and direction and the place, mass and
\* static flag of body 5 are drawn from the sets below.  The points are
\* at distances 0, 30, 31, 100, 100, 249, 250, 299, 300 and 301 from the
\* emitter, those of body 6 at 100 and 249.
EmitterPoint == Vec(400, 300)
NearPoints ==
    { Vec(400, 300), Vec(430, 300), Vec(431, 300), Vec(460, 380), Vec(320, 240),
      Vec(649, 300), Vec(400, 50), Vec(400, 1), Vec(700, 300), Vec(701, 300) }
FarPoints == { Vec(340, 220), Vec(151, 300) }
Strengths == { Null, Some(0), Some(1000) }
Directions == { Null, Some(0), Some(90) }
Masses == { 1, 3 }

EmitterDefinitions ==
    { [Definition("emitter", "rectangle", TRUE, "Emitter", "fan")
          EXCEPT !.emitterStrength = s, !.emitterDirection = d] :
          s \in Strengths, d \in Directions }
    \cup { [Definition("emitter", "circle", TRUE, "Emitter", "gravity_well")
              EXCEPT !.emitterStrength = s] : s \in Strengths }
    \cup { [Definition("emitter", "rectangle", TRUE, "Emitter", "magnet")
              EXCEPT !.emitterStrength = Some(10)],
           [Definition("emitter", "rectangle", TRUE, "Emitter", "rocket")
              EXCEPT !.emitterStrength = Some(1500), !.emitterDirection = Some(-90)] }

BallDefinitions ==
    { [Definition("ball", "circle", static, "Ball", "") EXCEPT !.mass = m] :
          static \in BOOLEAN, m \in Masses }

InitForce ==
    /\ is3D = FALSE
    /\ isPaused = FALSE
    /\ gravity = 10
    /\ timeScale = 10
    /\ showMotionTrails = FALSE
    /\ showVelocityVectors = FALSE
    /\ selectedObject = Null
    /\ physicsState = Null
    /\ graphData = <<>>
    /\ nextId = 7
    /\ \E emitter \in EmitterDefinitions, ball \in BallDefinitions,
          near \in NearPoints, far \in FarPoints :
          LET other == Definition("ball", "circle", FALSE, "Ball", "")
              made == << Val(createBody(emitter, EmitterPoint.x, EmitterPoint.y)),
                         Val(createBody(ball, near.x, near.y)),
                         Val(createBody(other, far.x, far.y)) >>
          IN  /\ bodies = [id \in 1..6 |->
                              IF id <= 3 THEN BoundaryBodies[id] ELSE made[id - 3]]
              /\ sceneObjectsRef =
                     (4 :> NewSceneObject(4, emitter, EmitterPoint.x, EmitterPoint.y, made[1]))
                     @@ (5 :> NewSceneObject(5, ball, near.x, near.y, made[2]))
                     @@ (6 :> NewSceneObject(6, other, far.x, far.y, made[3]))
    /\ constraints = { MouseConstraint }
    /\ motionTrailsRef = Empty
    /\ selectedObjectIdRef = Null
    /\ boundary = 1..3
    /\ loaderState = "Idle"
    /\ experiment = Null
    /\ objIndex = 0
    /\ conIndex = 0
    /\ createdBodies = <<>>
    /\ objects = <<>>
    /\ initialPositionsRef = Empty
    /\ objectIdCounter = 0
    /\ tickCount = 0
    /\ lastStep = NoStep

NextForce ==
    \/ SelectedObjectIdEffect
    \/ SetShowMotionTrails
    \/ mouseConstraintMouseDown("POINTER", Some(5))
    \/ Tick(0)
    \/ handleStepFrame(0)

SpecForce == InitForce /\ [][NextForce]_vars

\* SpecPaused: the 2D lab with the pause switch, frames and step-frame next
\* to every operation that edits the scene.
BodyPayloads == { p \in LabPayloads : p.def.id \in { "pendulum_bob", "crate" } }

NextPaused ==
    \/ SetIs3D(FALSE)
    \/ SelectedObjectIdEffect
    \/ SetIsPaused
    \/ \E payload \in BodyPayloads, pt \in DropPoints : handleDrop(payload, pt)
    \/ \E target \in ClickTargets : mouseConstraintMouseDown("POINTER", target)
    \/ \E tool \in Tools, target \in ClickTargets : handleToolAction(tool, target)
    \/ Tick(0)
    \/ handleStepFrame(0)
    \/ handleClear2D
    \/ handleReset2D
    \/ handleDeleteObject2D
    \/ \E id \in LabExperiments : handleSelectExperiment2D(id)
    \/ loadPlacement
    \/ loadConstraint
    \/ loadReturn

SpecPaused == Init /\ [][NextPaused]_vars

\* SpecTrails: the motion trails of a scene that has been running.  A
\* pendulum bob dropped at (400, 200) has fallen for some frames with trails
\* on; the frames so far are drawn from TrailLengths, which reaches the
\* capacity of the buffer.
TrailLengths == { 0, 1, 79, 80 }

\* Where the bob is after n frames of free fall, and its trail by then.
FallenTo(n) == Vec(400, Min(canvasHeight, 200 + (n * (n + 1)) \div 2))
TrailAfter(n) == [k \in 1..n |-> FallenTo(k)]

InitTrails ==
    /\ is3D = FALSE
    /\ isPaused = FALSE
    /\ gravity = 10
    /\ timeScale = 10
    /\ showMotionTrails = TRUE
    /\ showVelocityVectors = FALSE
    /\ selectedObject = Null
    /\ physicsState = Null
    /\ graphData = <<>>
    /\ nextId = 5
    /\ \E n \in TrailLengths :
          LET bob == PHYSICS_OBJECTS[2]
              made == Val(createBody(bob, 400, 200))
          IN  /\ bodies = [id \in 1..4 |->
                              IF id <= 3 THEN BoundaryBodies[id]
                              ELSE [made EXCEPT !.position = FallenTo(n),
                                                !.velocity = Vec(0, n)]]
              /\ sceneObjectsRef = (4 :> NewSceneObject(4, bob, 400, 200, made))
              /\ motionTrailsRef = IF n = 0 THEN Empty ELSE (4 :> TrailAfter(n))
    /\ constraints = { MouseConstraint }
    /\ selectedObjectIdRef = Null
    /\ boundary = 1..3
    /\ loaderState = "Idle"
    /\ experiment = Null
    /\ objIndex = 0
    /\ conIndex = 0
    /\ createdBodies = <<>>
    /\ objects = <<>>
    /\ initialPositionsRef = Empty
    /\ objectIdCounter = 0
    /\ tickCount = 0
    /\ lastStep = NoStep

NextTrails ==
    \/ SelectedObjectIdEffect
    \/ SetShowMotionTrails
    \/ \E payload \in BodyPayloads, pt \in DropPoints : handleDrop(payload, pt)
    \/ \E target \in ClickTargets : mouseConstraintMouseDown("POINTER", target)
    \/ \E target \in ClickTargets : handleToolAction("ERASER", target)
    \/ \E spin \in Spins : Tick(spin)
    \/ \E spin \in Spins : handleStepFrame(spin)
    \/ handleClear2D
    \/ handleReset2D
    \/ handleDeleteObject2D
    \/ \E id \in LabExperiments : handleSelectExperiment2D(id)
    \/ loadPlacement
    \/ loadConstraint
    \/ loadReturn

SpecTrails == InitTrails /\ [][NextTrails]_vars

\* SpecState: the state calculators and the graph buffer.  A pendulum bob
\* (body 4) is selected and has been sliding to the right for some frames,
\* each of which gave a graph sample; the frames so far are drawn from
\* GraphLengths, which reaches the capacity of the buffer, and the bob's mass,
\* velocity and height, and the gravity scale, are drawn as well.
GraphLengths == { 0, 1, 199, 200 }

GraphAfter(body, n) ==
    [k \in 1..n |-> GraphDataPoint(calculatePhysicsState(
                        [body EXCEPT !.position = Vec(200 + k, @.y),
                                     !.velocity = Vec(1, 0)]))]

InitState ==
    /\ is3D = FALSE
    /\ isPaused = FALSE
    /\ gravity \in GravityValues
    /\ timeScale = 10
    /\ showMotionTrails = FALSE
    /\ showVelocityVectors = FALSE
    /\ selectedObject = Some(MatterId(4))
    /\ nextId = 5
    /\ \E n \in GraphLengths, m \in Masses, v \in { Zero, Vec(1, 0), Vec(3, 4) },
          y \in { 200, 599 } :
          LET bob == PHYSICS_OBJECTS[2]
              made == [Val(createBody(bob, 200, y)) EXCEPT !.mass = m]
              now == [made EXCEPT !.position = Vec(200 + n, y), !.velocity = v]
          IN  /\ bodies = [id \in 1..4 |-> IF id <= 3 THEN BoundaryBodies[id] ELSE now]
              /\ sceneObjectsRef = (4 :> NewSceneObject(4, bob, 200, y, made))
              /\ physicsState = Some(calculatePhysicsState(now))
              /\ graphData = GraphAfter(made, n)
    /\ constraints = { MouseConstraint }
    /\ motionTrailsRef = Empty
    /\ selectedObjectIdRef = Some(MatterId(4))
    /\ boundary = 1..3
    /\ loaderState = "Idle"
    /\ experiment = Null
    /\ objIndex = 0
    /\ conIndex = 0
    /\ createdBodies = <<>>
    /\ objects = <<>>
    /\ initialPositionsRef = Empty
    /\ objectIdCounter = 0
    /\ tickCount = 0
    /\ lastStep = NoStep

NextState ==
    \/ SetIs3D(TRUE)
    \/ SelectedObjectIdEffect
    \/ \E g \in GravityValues : setGravity(g)
    \/ \E target \in ClickTargets : handleCanvasClick("POINTER", target)
    \/ Tick(0)
    \/ handleStepFrame(0)
    \/ \E payload \in BodyPayloads, pos \in DropPoints3D : handleDrop3D(payload, pos)
    \/ \E id \in ObjectIds, pos \in DropPoints3D \cup { Vec3(0, -1, 0) },
          vel \in { Vec3(0, 0, 0), Vec3(60, 0, 0), Vec3(2, -3, 6) }, m \in Masses :
          handlePhysicsUpdate3D(id, pos, vel, m)

SpecState == InitState /\ [][NextState]_vars

\* SpecShapes: drops onto either canvas.  The payloads are those of
\* DropPayloads (catalog entries, an unsupported shape, a value without
\* options, text that is not JSON, no text) and definitions whose shape
\* parameters are incomplete (a circle without radius, a rectangle without
\* height); the 2D canvas runs with or without motion trails.
ShapePayloads ==
    DropPayloads
    \cup { Payload("json", Definition("hoop", "circle", FALSE, "Hoop", "")),
           Payload("json", [Definition("plank", "rectangle", FALSE, "Plank", "")
                               EXCEPT !.width = Some(120)]) }

NextShapes ==
    \/ \E b \in BOOLEAN : SetIs3D(b)
    \/ SelectedObjectIdEffect
    \/ SetShowMotionTrails
    \/ \E payload \in ShapePayloads, pt \in DropPoints : handleDrop(payload, pt)
    \/ \E target \in ClickTargets : handleToolAction("ERASER", target)
    \/ Tick(0)
    \/ \E payload \in ShapePayloads, pos \in DropPoints3D : handleDrop3D(payload, pos)

SpecShapes == Init /\ [][NextShapes]_vars

\* SpecSettings: the global settings of the toolbar next to the preset loads
\* of both canvases.
NextSettings ==
    \/ \E b \in BOOLEAN : SetIs3D(b)
    \/ \E g \in GravityValues : setGravity(g)
    \/ \E ts \in TimeScales : setTimeScale(ts)
    \/ SetShowMotionTrails
    \/ SetShowVelocityVectors
    \/ \E id \in ExperimentIds : handleSelectExperiment2D(id)
    \/ loadPlacement
    \/ loadConstraint
    \/ loadReturn
    \/ \E id \in ExperimentIds : handleSelectExperiment3D(id)

SpecSettings == Init /\ [][NextSettings]_vars

\* =================================================================== claims
Range(seq) == { seq[i] : i \in 1..Len(seq) }
SceneConstraints == { c \in constraints : c.kind = "scene" }

\* The bodies of the world other than the floor and the walls.
SceneBodies == DOMAIN bodies \ boundary

\* The registry entries made for placement k (0-based) of a preset: the entry
\* records the placement's definition and its x, y as initialPosition.
PlacementBodies(preset, k) ==
    IF k >= 0 /\ k < Len(preset.objects)
    THEN { id \in DOMAIN sceneObjectsRef :
             /\ sceneObjectsRef[id].definitionId = preset.objects[k + 1].definitionId
             /\ sceneObjectsRef[id].initialPosition =
                    Vec(preset.objects[k + 1].x, preset.objects[k + 1].y) }
    ELSE {}

\* The load has run all its placements and constraints and is about to return.
LoadDone ==
    /\ loaderState = "Loading"
    /\ objIndex = Len(Val(experiment).objects)
    /\ conIndex = Len(Val(experiment).constraints)

\* ----------------------------------------------------------------------- C1
\* C1: after any sequence of drop, preset load, eraser, delete-selected,
\* clear, reset and static-toggle on the 2D canvas, the keys of the scene
\* registry are exactly the ids of the bodies of the world other than the
\* floor and the walls: no entry without a body, no such body without an entry.
C1_RegistryMatchesWorld == DOMAIN sceneObjectsRef = SceneBodies

\* ----------------------------------------------------------------------- C2
\* C2: when an object is removed by delete-selected or by the eraser, every
\* constraint whose bodyA or bodyB is its body goes with it; so in every
\* reachable state each endpoint of each constraint of the world is a body
\* that is in the world and in the registry.
C2_NoDanglingConstraint ==
    \A c \in constraints :
        /\ ~IsNull(c.bodyA) =>
               Val(c.bodyA) \in DOMAIN bodies /\ Val(c.bodyA) \in DOMAIN sceneObjectsRef
        /\ ~IsNull(c.bodyB) =>
               Val(c.bodyB) \in DOMAIN bodies /\ Val(c.bodyB) \in DOMAIN sceneObjectsRef

\* The static body of `linked_pair` is left without the body it was linked
\* to: that body was removed by the eraser or by delete-selected.
C2_Witness ==
    /\ Quiet
    /\ \E id \in DOMAIN sceneObjectsRef :
           /\ sceneObjectsRef[id].definitionId = "fan"
           /\ sceneObjectsRef[id].initialPosition = Vec(500, 100)
    /\ ~\E id \in DOMAIN sceneObjectsRef :
           /\ sceneObjectsRef[id].definitionId = "pendulum_bob"
           /\ sceneObjectsRef[id].initialPosition = Vec(350, 250)
    /\ SceneConstraints = {}

\* ----------------------------------------------------------------------- C3
\* C3: immediately after clear(), from any reachable state, the registry
\* holds no object, the world holds no scene constraint and no body other
\* than the floor and the walls, and the floor and both walls are in the world.
C3_ClearLeavesOnlyBoundaries ==
    [][handleClear2D =>
          /\ DOMAIN sceneObjectsRef' = {}
          /\ { c \in constraints' : c.kind = "scene" } = {}
          /\ DOMAIN bodies' = boundary'
          /\ Cardinality(boundary') = 3]_vars

\* ----------------------------------------------------------------------- C4
\* C4: the floor and the two walls made by the setup effect are in the world
\* and static in every reachable state of the mounted 2D canvas; no clear,
\* load, delete-selected, eraser or pin removes them or flips their static
\* flag, and they are never registered, selected or offered as a click target.
C4_BoundariesProtected ==
    /\ ~is3D => Cardinality(boundary) = 3
    /\ \A b \in boundary :
           /\ b \in DOMAIN bodies
           /\ bodies[b].isStatic
           /\ b \notin DOMAIN sceneObjectsRef
           /\ selectedObject # Some(MatterId(b))
           /\ selectedObjectIdRef # Some(MatterId(b))
           /\ Some(b) \notin ClickTargets

\* A clear or a load has run (the mouse constraint is gone) and a dropped
\* pendulum bob has since been pinned or toggled static.
C4_Witness ==
    /\ In2D
    /\ MouseConstraint \notin constraints
    /\ \E id \in DOMAIN sceneObjectsRef :
           /\ sceneObjectsRef[id].definitionId = "pendulum_bob"
           /\ sceneObjectsRef[id].initialPosition = Vec(400, 200)
           /\ bodies[id].isStatic

\* ----------------------------------------------------------------------- C5
\* C5: when loadExperiment(B) returns for a known preset B, every object of
\* the 2D registry and every body of the world other than the floor and the
\* walls was created by that call; in 3D every object of the new list was
\* built by that call from a placement of B and none has the id of an
\* object that was in the list before.
C5_LoadReplacesScene ==
    [][/\ loadReturn =>
              /\ DOMAIN sceneObjectsRef \subseteq Range(createdBodies)
              /\ SceneBodies \subseteq Range(createdBodies)
       /\ \A id \in ExperimentIds :
              (handleSelectExperiment3D(id) /\ ~IsNull(getExperimentById(id))) =>
                  \A i \in 1..Len(objects') :
                      /\ objects'[i].id \notin ObjectIds
                      /\ \E k \in 1..Len(Val(getExperimentById(id)).objects) :
                             Val(getExperimentById(id)).objects[k].definitionId
                                 = objects'[i].definitionId]_vars

\* ----------------------------------------------------------------------- C6
\* C6: a load request for a preset id that is not in the catalog changes
\* nothing: bodies, constraints, registry, trail buffers, selection,
\* displayed PhysicsState, graph buffer and 3D object list stay as they
\* were and the loader stays Idle.
C6_UnknownPresetChangesNothing ==
    [][\A id \in ExperimentIds :
           (/\ IsNull(getExperimentById(id))
            /\ handleSelectExperiment2D(id) \/ handleSelectExperiment3D(id))
           => /\ UNCHANGED << bodies, constraints, sceneObjectsRef, motionTrailsRef >>
              /\ UNCHANGED << selectedObject, physicsState, graphData >>
              /\ UNCHANGED << objects, initialPositionsRef >>
              /\ loaderState' = "Idle"]_vars

\* ----------------------------------------------------------------------- C7
\* C7: during a load of a known preset all old bodies, constraints, registry
\* entries and trail buffers are gone and the selection and the graph
\* buffer are cleared before the first new body exists, and no tick (engine
\* update, overlay, state sample) runs between the start and the end of
\* the load; so no state shows pre-load objects next to loaded ones.
C7_ClearBeforeCreate ==
    /\ [](loaderState = "Loading" =>
              /\ SceneBodies \subseteq Range(createdBodies)
              /\ DOMAIN sceneObjectsRef \subseteq Range(createdBodies)
              /\ \A c \in constraints :
                     c.kind = "scene" /\ Val(c.bodyA) \in Range(createdBodies)
              /\ motionTrailsRef = Empty
              /\ selectedObject = Null
              /\ graphData = <<>>)
    /\ [][loaderState = "Loading" =>
              /\ tickCount' = tickCount
              /\ motionTrailsRef' = motionTrailsRef
              /\ \A id \in DOMAIN bodies : bodies'[id] = bodies[id]]_vars

\* ----------------------------------------------------------------------- C8
\* C8: when a placement is skipped, objectAIndex and objectBIndex still mean
\* the original placement indices: each constraint of the load is attached
\* only to the bodies created for the placements at exactly those indices.
C8_ConstraintsKeepPlacementIndices ==
    loaderState = "Loading" =>
        \A c \in SceneConstraints :
            LET cfg == Val(experiment).constraints[c.index + 1]
            IN  /\ ~IsNull(c.bodyA) =>
                       Val(c.bodyA) \in PlacementBodies(Val(experiment), cfg.objectAIndex)
                /\ ~IsNull(c.bodyB) =>
                       /\ ~IsNull(cfg.objectBIndex)
                       /\ Val(c.bodyB) \in
                              PlacementBodies(Val(experiment), Val(cfg.objectBIndex))

\* ----------------------------------------------------------------------- C9
\* C9: of a loaded preset's constraints, one whose objectAIndex, or whose
\* specified objectBIndex, has no created object (out of range or a skipped
\* placement) is not in the world in any form, every other one is, and the
\* load can always go on to its return.
C9_DanglingConstraintSkipped ==
    /\ loaderState = "Loading" => ENABLED (loadPlacement \/ loadConstraint \/ loadReturn)
    /\ LoadDone =>
           \A i \in 0..(Len(Val(experiment).constraints) - 1) :
               LET cfg == Val(experiment).constraints[i + 1]
                   resolves ==
                       /\ PlacementBodies(Val(experiment), cfg.objectAIndex) # {}
                       /\ \/ IsNull(cfg.objectBIndex)
                          \/ PlacementBodies(Val(experiment), Val(cfg.objectBIndex)) # {}
               IN  (\E c \in SceneConstraints : c.index = i) <=> resolves

\* ---------------------------------------------------------------------- C10
\* C10: a placement whose definitionId is not in the catalog creates no body
\* and no registry entry, and every other placement is created, in preset
\* order, at its position and with its angle, velocity and static overrides
\* applied, in 2D and (for the static override its objects carry) in 3D.
Overridden(value, override) == IF IsNull(override) THEN value ELSE Val(override)

C10_UnknownDefinitionSkipped ==
    /\ LoadDone =>
           \A k \in 0..(Len(Val(experiment).objects) - 1) :
               LET objConfig == Val(experiment).objects[k + 1]
                   definition == getObjectById(objConfig.definitionId)
                   made == PlacementBodies(Val(experiment), k)
               IN  IF IsNull(definition)
                   THEN made = {}
                   ELSE /\ Cardinality(made) = 1
                        /\ \A id \in made :
                               /\ bodies[id].position = Vec(objConfig.x, objConfig.y)
                               /\ bodies[id].angle = Overridden(0, objConfig.angle)
                               /\ bodies[id].velocity = Overridden(Zero, objConfig.velocity)
                               /\ bodies[id].isStatic =
                                      Overridden(Val(definition).isStatic, objConfig.isStatic)
                               /\ \A j \in 0..(k - 1) :
                                      \A other \in PlacementBodies(Val(experiment), j) :
                                          other < id
    /\ Quiet =>
           \A i \in 1..Len(objects) :
               objects[i].id.space = "exp" =>
                   \E e \in 1..Len(EXPERIMENTS) :
                       \E k \in 1..Len(EXPERIMENTS[e].objects) :
                           LET objConfig == EXPERIMENTS[e].objects[k]
                               definition == getObjectById(objConfig.definitionId)
                           IN  /\ ~IsNull(definition)
                               /\ objects[i].definitionId = objConfig.definitionId
                               /\ objects[i].position =
                                      Position3D(objConfig, k - 1, Len(EXPERIMENTS[e].objects))
                               /\ objects[i].isStatic =
                                      Overridden(Val(definition).isStatic, objConfig.isStatic)

\* ---------------------------------------------------------------------- C11
\* C11: after a successful load of a preset that carries initialSettings,
\* the gravity, the time scale and the visualization switches the preset
\* names have the preset's values, whatever they were before the load.
Applied(st) ==
    /\ ~IsNull(st.gravity) => gravity' = Val(st.gravity)
    /\ ~IsNull(st.timeScale) => timeScale' = Val(st.timeScale)
    /\ ~IsNull(st.showMotionTrails) => showMotionTrails' = Val(st.showMotionTrails)
    /\ ~IsNull(st.showVelocityVectors) =>
           showVelocityVectors' = Val(st.showVelocityVectors)

C11_InitialSettingsApplied ==
    [][/\ (loadReturn /\ ~IsNull(Val(experiment).initialSettings)) =>
              Applied(Val(Val(experiment).initialSettings))
       /\ \A id \in ExperimentIds :
              (/\ handleSelectExperiment3D(id)
               /\ ~IsNull(getExperimentById(id))
               /\ ~IsNull(Val(getExperimentById(id)).initialSettings)) =>
                  Applied(Val(Val(getExperimentById(id)).initialSettings))]_vars

\* ---------------------------------------------------------------------- C12
\* C12: after reset(), every registered object's body is at the recorded
\* initialPosition with the recorded initialAngle and with zero linear and
\* angular velocity, whatever ticks, emitter forces and static toggles
\* came before.
C12_ResetRestoresInitialState ==
    [][handleReset2D =>
          \A id \in DOMAIN sceneObjectsRef' :
              /\ id \in DOMAIN bodies'
              /\ bodies'[id].position = sceneObjectsRef'[id].initialPosition
              /\ bodies'[id].angle = sceneObjectsRef'[id].initialAngle
              /\ bodies'[id].velocity = Zero
              /\ bodies'[id].angularVelocity = 0]_vars

\* The selected body was sampled by a tick away from where it is now, and
\* it is back at its initial position, at rest, while a body that a pin or
\* the static switch has made static is in the scene.
C12_Witness ==
    /\ tickCount > 0
    /\ ~IsNull(physicsState)
    /\ \E id \in DOMAIN sceneObjectsRef :
           /\ selectedObjectIdRef = Some(MatterId(id))
           /\ Val(physicsState).position # bodies[id].position
           /\ bodies[id].position = sceneObjectsRef[id].initialPosition
           /\ bodies[id].velocity = Zero
           /\ bodies[id].angularVelocity = 0
    /\ \E id \in DOMAIN sceneObjectsRef :
           sceneObjectsRef[id].definitionId = "pendulum_bob" /\ bodies[id].isStatic

\* ---------------------------------------------------------------------- C13
\* C13: in every tick each emitter force goes to a body that is not static
\* at that tick (a body made static by the pin tool or the static switch
\* included), is not a boundary body and is not the emitter's own body.
Forces(step) == { step.forces[i] : i \in 1..Len(step.forces) }

C13_ForcesOnlyOnEligibleBodies ==
    [][tickCount' # tickCount =>
          \A f \in Forces(lastStep') :
              /\ f.body \in DOMAIN bodies
              /\ ~bodies[f.body].isStatic
              /\ f.body \notin boundary
              /\ bodies[f.body].label # "Boundary"
              /\ f.body # f.emitter]_vars

\* A tick has pushed a body while an older dynamic-by-definition body,
\* static now and within the radius of the same emitter, got no force.
C13_Witness ==
    /\ tickCount > 0
    /\ \E f \in Forces(lastStep) :
           \E b \in DOMAIN sceneObjectsRef :
               /\ b < f.body
               /\ b # f.emitter
               /\ f.emitter \in DOMAIN bodies
               /\ sceneObjectsRef[b].definitionId = "pendulum_bob"
               /\ bodies[b].isStatic
               /\ DistanceSq(bodies[b].position, bodies[f.emitter].position)
                      < FanRadius * FanRadius
               /\ \A g \in Forces(lastStep) : g.body # b

\* ---------------------------------------------------------------------- C14
\* C14: a fan emitter of strength s and an eligible body at distance d: for
\* d < 300 one force of magnitude s * (1 - d/300) along the configured
\* direction (0 degrees is +x), so no larger for a body farther away; for
\* d >= 300 no force.
Eligible(e, b) ==
    b # e /\ ~bodies[b].isStatic /\ bodies[b].label # "Boundary" /\ b \notin boundary

AppliedBy(step, e, b) == { f \in Forces(step) : f.emitter = e /\ f.body = b }

Configured(e, type) ==
    /\ e \in DOMAIN bodies
    /\ sceneObjectsRef[e].emitterType = type
    /\ ~IsNull(sceneObjectsRef[e].emitterStrength)

C14_FanLaw ==
    [][tickCount' # tickCount =>
          \A e \in DOMAIN sceneObjectsRef :
              (Configured(e, "fan") /\ ~IsNull(sceneObjectsRef[e].emitterDirection)) =>
                  \A b \in DOMAIN bodies :
                      Eligible(e, b) =>
                          LET s == Val(sceneObjectsRef[e].emitterStrength)
                              angle == Val(sceneObjectsRef[e].emitterDirection)
                              dd == DistanceSq(bodies[b].position, bodies[e].position)
                              d == Sqrt(dd)
                          IN  /\ dd < 300 * 300 =>
                                     AppliedBy(lastStep', e, b) =
                                         { Application(e, b, Ratio(s * (300 - d), 300),
                                                       UnitVector(angle)) }
                              /\ dd >= 300 * 300 => AppliedBy(lastStep', e, b) = {}
                              /\ \A c \in DOMAIN bodies :
                                     (/\ Eligible(e, c)
                                      /\ dd <= DistanceSq(bodies[c].position, bodies[e].position))
                                     => \A f \in AppliedBy(lastStep', e, b),
                                           g \in AppliedBy(lastStep', e, c) :
                                            f.forceMag.num * g.forceMag.den
                                                >= g.forceMag.num * f.forceMag.den]_vars

\* ---------------------------------------------------------------------- C15
\* C15: a gravity_well emitter of strength s and an eligible body of mass m
\* at distance d: no force for d <= 30 or d >= 250; for 30 < d < 250 one
\* force of magnitude s * m * 50000 / d^2, pointing from the body to the
\* emitter, and smaller for a body of the same mass that is farther away.
InBand(dd) == 30 * 30 < dd /\ dd < 250 * 250

C15_GravityWellLaw ==
    [][tickCount' # tickCount =>
          \A e \in DOMAIN sceneObjectsRef :
              Configured(e, "gravity_well") =>
                  \A b \in DOMAIN bodies :
                      Eligible(e, b) =>
                          LET s == Val(sceneObjectsRef[e].emitterStrength)
                              m == bodies[b].mass
                              toEmitter == Vec(bodies[e].position.x - bodies[b].position.x,
                                               bodies[e].position.y - bodies[b].position.y)
                              dd == DistanceSq(bodies[b].position, bodies[e].position)
                          IN  /\ ~InBand(dd) => AppliedBy(lastStep', e, b) = {}
                              /\ InBand(dd) =>
                                     /\ Cardinality(AppliedBy(lastStep', e, b)) = 1
                                     /\ \A f \in AppliedBy(lastStep', e, b) :
                                            /\ f.forceMag = Ratio(s * m * 50000, dd)
                                            /\ f.direction.den * f.direction.den = dd
                                            /\ f.direction.x = toEmitter.x
                                            /\ f.direction.y = toEmitter.y
                              /\ \A c \in DOMAIN bodies :
                                     (/\ Eligible(e, c)
                                      /\ bodies[c].mass = m
                                      /\ dd < DistanceSq(bodies[c].position, bodies[e].position))
                                     => \A f \in AppliedBy(lastStep', e, b),
                                           g \in AppliedBy(lastStep', e, c) :
                                            /\ f.forceMag.num = g.forceMag.num
                                            /\ f.forceMag.den < g.forceMag.den]_vars

\* ---------------------------------------------------------------------- C16
\* C16: the forces of one evaluator run are a function of the bodies'
\* positions, masses and static flags and of the registered emitters'
\* parameters alone (not of earlier ticks, velocities, trail buffers,
\* selection or visualization settings); a run happens once per engine
\* update and applies at most one force per pair of emitter and body.
EvaluatorBodies ==
    [id \in DOMAIN bodies |->
        [label |-> IF bodies[id].label = "Boundary" THEN "Boundary" ELSE "",
         isStatic |-> bodies[id].isStatic, position |-> bodies[id].position,
         mass |-> bodies[id].mass]]

EvaluatorEmitters ==
    [id \in DOMAIN sceneObjectsRef |->
        [body |-> sceneObjectsRef[id].body,
         emitterType |-> sceneObjectsRef[id].emitterType,
         emitterStrength |-> sceneObjectsRef[id].emitterStrength,
         emitterDirection |-> sceneObjectsRef[id].emitterDirection]]

\* What the emitters in `emitters` do to the bodies in `bs`, emitter by
\* emitter and body by body.
ForcesOf(emitters, bs) ==
    ForEachEmitter(emitters, bs,
        Ascending({ e \in DOMAIN emitters :
                      emitters[e].emitterType # "" /\ emitters[e].body \in DOMAIN bs }))

TrailLen(trails, id) == IF id \in DOMAIN trails THEN Len(trails[id]) ELSE 0

C17_StepFrameRunsEachHookOnce ==
    [][(isPaused /\ \E spin \in Spins : handleStepFrame(spin)) =>
          /\ tickCount' = tickCount + 1
          /\ lastStep'.updates = 1
          /\ lastStep'.evaluations = 1
          /\ lastStep'.overlays = 1
          /\ lastStep'.samples <= 1
          /\ showMotionTrails =>
                 \A id \in DOMAIN sceneObjectsRef :
                     (id \in NotBoundary(bodies) /\ ~bodies[id].isStatic) =>
                         TrailLen(motionTrailsRef', id) =
                             Min(TrailLen(motionTrailsRef, id) + 1, TrailCapacity)]_vars

\* ---------------------------------------------------------------------- C18
\* C18: while the simulation is paused nothing is stepped (no force
\* evaluation, no integration, no overlay, no state or graph sample)
\* except by stepFrame(); and drop, delete-selected, eraser, pin, reset,
\* clear and preset load done while paused have their full effect and
\* keep the registry equal to the bodies of the world other than the floor
\* and the walls.
C18_PausedOnlySteps ==
    [][isPaused =>
          /\ (tickCount' # tickCount \/ lastStep' # lastStep) => handleStepFrame(0)
          /\ \A payload \in BodyPayloads, pt \in DropPoints :
                 handleDrop(payload, pt) =>
                     /\ nextId \in DOMAIN sceneObjectsRef'
                     /\ bodies'[nextId].position = pt
          /\ \A id \in DOMAIN bodies :
                 /\ handleToolAction("ERASER", Some(id)) =>
                        id \notin DOMAIN bodies' /\ id \notin DOMAIN sceneObjectsRef'
                 /\ handleToolAction("PIN", Some(id)) =>
                        bodies'[id].isStatic = ~bodies[id].isStatic
          /\ handleDeleteObject2D =>
                 \A id \in DOMAIN bodies :
                     selectedObjectIdRef = Some(MatterId(id)) => id \notin DOMAIN bodies'
          /\ handleReset2D =>
                 \A id \in DOMAIN sceneObjectsRef :
                     bodies'[id].position = sceneObjectsRef[id].initialPosition
          /\ handleClear2D => DOMAIN sceneObjectsRef' = {} /\ constraints' = {}
          /\ loadReturn =>
                 Range(createdBodies) = DOMAIN sceneObjectsRef' /\ createdBodies # <<>>
          /\ DOMAIN sceneObjectsRef = SceneBodies =>
                 DOMAIN sceneObjectsRef' = DOMAIN bodies' \ boundary']_vars

\* ---------------------------------------------------------------------- C19
\* C19: a motion-trail buffer never holds more than 80 points; a point
\* appended to a full buffer pushes out exactly the oldest one, so a buffer
\* is the latest (at most 80) sampled positions of its body, oldest first.
Latest(seq, n) == SubSeq(seq, Max(1, Len(seq) - n + 1), Len(seq))

\* `samples` copies of the position, as the overlay appended them.
Sampled(pos, samples) == [k \in 1..samples |-> pos]

C19_TrailBounded ==
    /\ [](\A id \in DOMAIN motionTrailsRef : Len(motionTrailsRef[id]) <= 80)
    /\ [][tickCount' # tickCount =>
              \A id \in DOMAIN motionTrailsRef' :
                  LET before == IF id \in DOMAIN motionTrailsRef
                                THEN motionTrailsRef[id] ELSE <<>>
                      drawn == /\ showMotionTrails
                               /\ id \in DOMAIN sceneObjectsRef
                               /\ ~bodies'[id].isStatic
                      samples == IF drawn THEN lastStep'.overlays ELSE 0
                  IN  motionTrailsRef'[id] =
                          IF drawn
                          THEN Latest(before \o Sampled(bodies'[id].position, samples), 80)
                          ELSE before]_vars

\* A full buffer has taken one more point: it holds 80 points, the newest
\* is where the body is now, and the first point of the fall is gone.
C19_Witness ==
    /\ tickCount > 0
    /\ \E id \in DOMAIN motionTrailsRef :
           /\ id \in DOMAIN bodies
           /\ Len(motionTrailsRef[id]) = 80
           /\ motionTrailsRef[id][80] = bodies[id].position
           /\ motionTrailsRef[id][1] # FallenTo(1)
           /\ motionTrailsRef[id][1] = FallenTo(2)

\* ---------------------------------------------------------------------- C20
\* C20: every motion-trail buffer belongs to an object that is in the
\* registry: delete-selected and the eraser remove the buffer with the
\* object, and clear, reset and a preset load leave no buffer at all.
C20_TrailsBelongToRegistry ==
    /\ [](DOMAIN motionTrailsRef \subseteq DOMAIN sceneObjectsRef)
    /\ [][(\/ handleClear2D
           \/ handleReset2D
           \/ \E id \in LabExperiments : handleSelectExperiment2D(id))
          => motionTrailsRef' = Empty]_vars

\* ---------------------------------------------------------------------- C21
\* C21: the graph-data buffer never holds more than 200 samples; a frame
\* that emits a sample (a 2D engine update that found the selected body, a
\* 3D frame of the selected object) leaves the buffer as the latest 200 of
\* the old buffer followed by the new sample, in arrival order.
Emitted == tickCount' = tickCount + 1 /\ (is3D \/ lastStep'.samples = 1)

C21_GraphBufferBounded ==
    /\ [](Len(graphData) <= 200)
    /\ [][Emitted =>
            /\ ~IsNull(physicsState')
            /\ graphData' = Latest(Append(graphData,
                                GraphDataPoint(Val(physicsState'))), 200)]_vars

\* A full buffer has taken one more sample: the oldest sample is gone, the
\* new one is last.
C21_Witness ==
    /\ ~is3D
    /\ tickCount = 1
    /\ Len(graphData) = 200
    /\ graphData[1].positionX = 202
    /\ graphData[199].positionX = 400
    /\ graphData[200] = GraphDataPoint(Val(physicsState))

\* ---------------------------------------------------------------------- C22
\* C22: an engine update publishes a PhysicsState and emits a graph sample
\* only for the body whose id is the current selection: when it publishes,
\* something is selected, the selection's id is the id of a body of the
\* world, and the state and the sample are that body's; when nothing is
\* selected or the selection matches no body, the displayed state and the
\* graph buffer are left as they were.
Selection == IF IsNull(selectedObject) THEN NaN ELSE ParseInt(Val(selectedObject))

C22_OnlySelectionPublished ==
    [][tickCount' = tickCount + 1 /\ ~is3D =>
        IF Selection \in DOMAIN bodies'
        THEN lastStep'.samples = 1 =>
                /\ physicsState' = Some(calculatePhysicsState(bodies'[Selection]))
                /\ graphData' # <<>>
                /\ graphData'[Len(graphData')] = GraphDataPoint(Val(physicsState'))
        ELSE /\ lastStep'.samples = 0
             /\ physicsState' = physicsState
             /\ graphData' = graphData]_vars

\* ---------------------------------------------------------------------- C23
\* C23: in every PhysicsState of the 2D calculator the kinetic energy is
\* 100 x 1/2 x mass x speed^2, speed being the magnitude of the velocity
\* reported in that state.  Energies are in thousandths, so the factor is
\* 50000; the comparison is made on the quotient to stay within 32 bits.
C23_KineticEnergyOfReportedSpeed ==
    ~is3D /\ ~IsNull(physicsState) =>
        LET state == Val(physicsState)
        IN  /\ state.kineticEnergy % 50000 = 0
            /\ state.kineticEnergy \div 50000 = state.mass * Magnitude(state.velocity).sq

\* ---------------------------------------------------------------------- C24
\* C24: the 2D calculator, the 3D calculator and the graph samples report
\* the same kinetic energy for the same mass and the same reported speed:
\* a displayed state has the kinetic energy that the 3D calculator reports
\* for a body of its mass and its velocity, whenever that body has the
\* state's speed, and a sample has the kinetic energy of the state that was
\* published with it.
C24_KineticEnergyConsistent ==
    /\ [](~IsNull(physicsState) =>
            LET state == Val(physicsState)
                twin == PhysicsState3D(Vec3(0, 0, 0),
                            Vec3(state.velocity.x, state.velocity.y, 0), state.mass)
            IN  twin.speed = state.speed => twin.kineticEnergy = state.kineticEnergy)
    /\ [][Emitted =>
            graphData'[Len(graphData')].kineticEnergy
                = Val(physicsState').kineticEnergy]_vars

\* ---------------------------------------------------------------------- C25
\* C25: the 2D state that an engine update publishes for a body has the
\* body's mass, 60 times its velocity as velocity, 60 times the magnitude of
\* its velocity as speed, which is the magnitude of the reported velocity,
\* and mass times the reported velocity as momentum, component by component.
Published2D == tickCount' = tickCount + 1 /\ ~is3D /\ lastStep'.samples = 1

C25_PerSecondConvention ==
    [][Published2D =>
        LET body == bodies'[ParseInt(Val(selectedObjectIdRef))]
            state == Val(physicsState')
        IN  /\ state.mass = body.mass
            /\ state.velocity = Vec(60 * body.velocity.x, 60 * body.velocity.y)
            /\ state.speed = Root(60 * 60 * Magnitude(body.velocity).sq)
            /\ state.speed = Magnitude(state.velocity)
            /\ state.momentum = Vec(state.mass * state.velocity.x,
                                    state.mass * state.velocity.y)]_vars

\* An engine update has published the state of a body of mass 3 that moves
\* along both axes.
C25_Witness ==
    /\ ~is3D
    /\ tickCount = 1
    /\ lastStep.samples = 1
    /\ ~IsNull(physicsState)
    /\ Val(physicsState).mass = 3
    /\ Val(physicsState).velocity = Vec(180, 300)
    /\ Val(physicsState).momentum = Vec(540, 900)

\* ---------------------------------------------------------------------- C26
\* C26: the potential energy of a displayed PhysicsState is never negative
\* and its total energy is its kinetic energy plus that potential energy;
\* the state that an engine update publishes for a body below the reference
\* plane (the bottom edge of the canvas) has potential energy 0.
C26_PotentialEnergyClamped ==
    /\ [](~IsNull(physicsState) =>
            LET state == Val(physicsState)
            IN  /\ state.potentialEnergy >= 0
                /\ state.totalEnergy = state.kineticEnergy + state.potentialEnergy)
    /\ [][Published2D =>
            LET body == bodies'[ParseInt(Val(selectedObjectIdRef))]
            IN  body.position.y > 600 => Val(physicsState').potentialEnergy = 0]_vars

\* Under gravity a moving body has fallen below the bottom edge, and its
\* state has been published.
C26_Witness ==
    /\ ~is3D
    /\ gravity = 10
    /\ lastStep.samples = 1
    /\ 4 \in DOMAIN bodies
    /\ bodies[4].position.y = 604
    /\ ~IsNull(physicsState)
    /\ Val(physicsState).position = bodies[4].position
    /\ Val(physicsState).potentialEnergy = 0
    /\ Val(physicsState).totalEnergy = Val(physicsState).kineticEnergy
    /\ Val(physicsState).kineticEnergy > 0

\* ---------------------------------------------------------------------- C27
\* C27: a drop of a definition whose shape parameters are incomplete (a
\* circle without radius, a rectangle without width or height, a shape tag
\* createBody does not know) adds no body to the world and no entry to the
\* registry.
Incomplete(def) ==
    \/ def.type = "circle" /\ IsNull(def.radius)
    \/ def.type = "rectangle" /\ (IsNull(def.width) \/ IsNull(def.height))
    \/ def.type \notin { "circle", "rectangle", "polygon" }

C27_IncompleteShapeIsNoOp ==
    [][\A payload \in ShapePayloads, pt \in DropPoints :
          handleDrop(payload, pt) /\ Incomplete(payload.def)
              => UNCHANGED << bodies, sceneObjectsRef >>]_vars

\* ---------------------------------------------------------------------- C28
\* C28: a drop whose payload is malformed (no text, text that is not JSON,
\* a parsed value without options) changes neither the world, the registry,
\* the trail buffers and the selection (2D) nor the object list and the
\* selection (3D).
Malformed(payload) == payload.text # "json" \/ ~payload.def.hasOptions

C28_MalformedDropChangesNothing ==
    [][\A payload \in ShapePayloads :
          Malformed(payload) =>
            /\ \A pt \in DropPoints :
                  handleDrop(payload, pt)
                      => UNCHANGED << bodies, constraints, sceneObjectsRef,
                                      motionTrailsRef, selectedObject >>
            /\ \A pos \in DropPoints3D :
                  handleDrop3D(payload, pos)
                      => UNCHANGED << objects, selectedObject >>]_vars

\* The 3D canvas has taken a well-formed drop and a drop of a value without
\* options: the id counter has advanced twice, and the list holds the one
\* object, which is selected.
C28_Witness ==
    /\ is3D
    /\ objectIdCounter = 2
    /\ Len(objects) = 1
    /\ selectedObject = Some(objects[1].id)

\* ---------------------------------------------------------------------- C29
\* C29: the overlay of an engine update writes nothing but motion-trail
\* buffers: the bodies are as the engine update left them, and the registry,
\* the constraints, the selection and the visualization settings are as
\* before; a buffer changes only while showMotionTrails is on and only for a
\* registered body of the world that is not static, and no buffer goes away.
C29_OverlayWritesOnlyTrails ==
    [][tickCount' = tickCount + 1 /\ ~is3D =>
        /\ \E spin \in Spins :
              bodies' = EngineUpdate(bodies, lastStep'.forces, gravity, spin)
        /\ UNCHANGED << constraints, sceneObjectsRef, selectedObject,
                        selectedObjectIdRef, showMotionTrails, showVelocityVectors >>
        /\ DOMAIN motionTrailsRef \subseteq DOMAIN motionTrailsRef'
        /\ \A id \in DOMAIN motionTrailsRef' :
              (id \notin DOMAIN motionTrailsRef \/ motionTrailsRef'[id] # motionTrailsRef[id])
                  => /\ showMotionTrails
                     /\ id \in DOMAIN sceneObjectsRef
                     /\ id \in DOMAIN bodies'
                     /\ ~bodies'[id].isStatic]_vars

\* With trails on, a frame has been drawn over a scene with a static
\* registered body and a moving one: only the moving one has a trail.
C29_Witness ==
    /\ tickCount = 1
    /\ showMotionTrails
    /\ \E fixed \in DOMAIN sceneObjectsRef, moving \in DOMAIN sceneObjectsRef :
          /\ fixed \in DOMAIN bodies
          /\ moving \in DOMAIN bodies
          /\ bodies[fixed].isStatic
          /\ fixed \notin DOMAIN motionTrailsRef
          /\ ~bodies[moving].isStatic
          /\ moving \in DOMAIN motionTrailsRef
          /\ motionTrailsRef[moving][Len(motionTrailsRef[moving])] = bodies[moving].position

\* ---------------------------------------------------------------------- C30
\* C30: the emitters an engine update evaluates are exactly the
\* emitter-carrying objects of the registry at that update: every force
\* comes from one of them, and each fan among them pushes every eligible
\* body within its radius.  An object removed by delete-selected, the
\* eraser, clear or a preset load is not among them: an emitter-carrying
\* entry of the registry always has its body in the world.
Emitters == { e \in DOMAIN sceneObjectsRef : sceneObjectsRef[e].emitterType # "" }

C30_NoForceFromRemovedEmitter ==
    /\ [](\A e \in Emitters : sceneObjectsRef[e].body \in DOMAIN bodies)
    /\ [][tickCount' = tickCount + 1 /\ ~is3D =>
            /\ \A f \in Forces(lastStep') : f.emitter \in Emitters
            /\ \A e \in Emitters, b \in DOMAIN bodies :
                  (/\ sceneObjectsRef[e].emitterType = "fan"
                   /\ Eligible(e, b)
                   /\ DistanceSq(bodies[b].position, bodies[e].position)
                          < FanRadius * FanRadius)
                      => AppliedBy(lastStep', e, b) # {}]_vars

\* The bob of the loaded pair has moved in an engine update that applied no
\* force, although the pair's fan was loaded within reach of it: the fan
\* had been removed before, and its entry is gone.
C30_Witness ==
    /\ lastStep.updates = 1
    /\ lastStep.forces = <<>>
    /\ Emitters = {}
    /\ \E b \in DOMAIN sceneObjectsRef :
          /\ sceneObjectsRef[b].definitionId = "pendulum_bob"
          /\ sceneObjectsRef[b].initialPosition = Vec(350, 250)
          /\ b \in DOMAIN bodies
          /\ ~bodies[b].isStatic
          /\ bodies[b].position = Vec(351, 251)
          /\ DistanceSq(bodies[b].position, Vec(500, 100)) < FanRadius * FanRadius

\* ---------------------------------------------------------------------- C31
\* C31: a magnet or rocket emitter is a force source like a fan or a gravity
\* well: in an engine update it applies a force to every eligible body
\* within its range.  A body farther than 30 and no farther than 100 pixels
\* from the emitter is within the range of both laws the evaluator has.
C31_MagnetAndRocketEmit ==
    [][tickCount' = tickCount + 1 /\ ~is3D =>
        \A e \in DOMAIN sceneObjectsRef, b \in DOMAIN bodies :
            (/\ sceneObjectsRef[e].emitterType \in { "magnet", "rocket" }
             /\ e \in DOMAIN bodies
             /\ Eligible(e, b)
             /\ DistanceSq(bodies[b].position, bodies[e].position) > 30 * 30
             /\ DistanceSq(bodies[b].position, bodies[e].position) <= 100 * 100)
                => AppliedBy(lastStep', e, b) # {}]_vars

\* ---------------------------------------------------------------------- C32
\* C32: reset() and resetSelectedPosition() write only position, angle,
\* velocity and angular velocity, and only of their targets: every
\* registered object for reset(), the object the canvas holds as selected
\* for resetSelectedPosition() (none when it holds no selection or one that
\* is not in the registry).  reset() also empties the trail buffers.  The
\* registry with its recorded initial values, the constraints, the static
\* flags and the selection stay as they are.
Placed(b) == [b EXCEPT !.position = Zero, !.angle = 0, !.velocity = Zero,
                       !.angularVelocity = 0]

OnlyPlacementOf(targets) ==
    /\ DOMAIN bodies' = DOMAIN bodies
    /\ \A id \in DOMAIN bodies :
          IF id \in targets
          THEN Placed(bodies'[id]) = Placed(bodies[id])
          ELSE bodies'[id] = bodies[id]
    /\ UNCHANGED << sceneObjectsRef, constraints, selectedObject, selectedObjectIdRef >>

SelectedTargets ==
    IF IsNull(selectedObjectIdRef) THEN {}
    ELSE { ParseInt(Val(selectedObjectIdRef)) } \cap DOMAIN sceneObjectsRef

C33_SelectionRefersToLiveObject ==
    Quiet /\ ~IsNull(selectedObject) =>
        IF is3D
        THEN Val(selectedObject) \in ObjectIds
        ELSE ParseInt(Val(selectedObject)) \in DOMAIN sceneObjectsRef

\* ---------------------------------------------------------------------- C34
\* C34: nothing of a previously selected object stays displayed or buffered.
\* A step that changes the selection leaves an empty graph buffer and a
\* displayed state that is either none or the state of the newly selected
\* body; an engine update that publishes, publishes the state of the body
\* selected at that moment, also while the canvas's snapshot of the
\* selection lags behind.
C34_NothingOfPreviousSelection ==
    [][/\ selectedObject' # selectedObject =>
            /\ graphData' = <<>>
            /\ \/ IsNull(physicsState')
               \/ /\ ~is3D'
                  /\ Selection' \in DOMAIN bodies'
                  /\ physicsState' = Some(calculatePhysicsState(bodies'[Selection']))
       /\ tickCount' = tickCount + 1 /\ ~is3D /\ graphData' # graphData =>
            /\ Selection \in DOMAIN bodies'
            /\ graphData'[Len(graphData')] = GraphDataPoint(calculatePhysicsState(bodies'[Selection]))]_vars

\* ---------------------------------------------------------------------- C35
\* C35: while the 2D canvas is mounted, the constraint of the mouse
\* interaction that setup added is in the world; clear() and
\* loadExperiment() take away scene constraints only.
C35_MouseConstraintStays ==
    ~is3D => MouseConstraint \in constraints

\* ---------------------------------------------------------------------- C36
\* C36: the label of a definition makes no difference to how its object is
\* tracked: every registered object can be hit by a click (and so selected,
\* erased or pinned), and clear() leaves the world with the floor and walls
\* only and the registry empty.
C36_LabelMakesNoDifference ==
    /\ [](In2D => \A id \in DOMAIN sceneObjectsRef : Some(id) \in ClickTargets)
    /\ [][handleClear2D =>
            DOMAIN bodies' \subseteq boundary /\ DOMAIN sceneObjectsRef' = {}]_vars

\* ---------------------------------------------------------------------- C37
\* C37: a fan or gravity well configured with emitterStrength 0 applies
\* zero force in an engine update: every force it applies, to any body at
\* any distance, has magnitude 0.
C37_ZeroStrengthZeroForce ==
    [][tickCount' = tickCount + 1 /\ ~is3D =>
          \A f \in Forces(lastStep') :
              (/\ f.emitter \in DOMAIN sceneObjectsRef
               /\ sceneObjectsRef[f.emitter].emitterType \in { "fan", "gravity_well" }
               /\ sceneObjectsRef[f.emitter].emitterStrength = Some(0))
                  => f.forceMag.num = 0]_vars

\* ---------------------------------------------------------------------- C38
\* C38: in the 3D scene the ids of the objects in the list are pairwise
\* distinct, the initial-position map has exactly these ids as its keys, and
\* an id is never given out twice: every id in the list lies below the id
\* counter, and no operation of the mounted 3D canvas (drop, preset load,
\* delete-selected, clear, reset) lowers the counter.
C38_Ids3DUniqueAndMapped ==
    /\ [](/\ \A i, j \in 1..Len(objects) : objects[i].id = objects[j].id => i = j
          /\ DOMAIN initialPositionsRef = ObjectIds
          /\ \A id \in ObjectIds : id.n < objectIdCounter)
    /\ [][is3D /\ is3D' => objectIdCounter' >= objectIdCounter]_vars

\* The object that got id 0 is gone, and the object made after it has id 1.
C38_Witness ==
    /\ In3D
    /\ objectIdCounter = 2
    /\ Len(objects) = 1
    /\ objects[1].id.n = 1
    /\ DOMAIN initialPositionsRef = { objects[1].id }

\* ---------------------------------------------------------------------- C39
\* C39: a static toggle, by the pin tool on a clicked body or by
\* toggle-selected-static on the body the canvas holds as selected, negates
\* the static flag of that body, so that a second toggle gives the flag
\* back; it adds and removes no body, leaves every other body as it was,
\* and keeps the registry entries with their recorded initial position and
\* angle and the constraints.
TogglesOnly(target) ==
    /\ DOMAIN bodies' = DOMAIN bodies
    /\ IF IsNull(target)
       THEN bodies' = bodies
       ELSE /\ bodies'[Val(target)].isStatic = ~bodies[Val(target)].isStatic
            /\ ~bodies'[Val(target)].isStatic = bodies[Val(target)].isStatic
            /\ \A id \in DOMAIN bodies \ { Val(target) } : bodies'[id] = bodies[id]
    /\ UNCHANGED << sceneObjectsRef, constraints >>

C39_ToggleStaticInvolution ==
    [][/\ \A target \in ClickTargets :
              handleToolAction("PIN", target) => TogglesOnly(target)
       /\ handleToggleStatic => TogglesOnly(FindSelected(selectedObjectIdRef))]_vars

\* A preset's pendulum bob, made dynamic, has been made static by a toggle
\* while the preset's constraint is in the world.
C39_Witness ==
    /\ In2D
    /\ SceneConstraints # {}
    /\ \E id \in DOMAIN sceneObjectsRef \cap DOMAIN bodies :
          /\ sceneObjectsRef[id].definitionId = "pendulum_bob"
          /\ bodies[id].isStatic

====
